---- MODULE Spec2Model ----
(***************************************************************************)
(* A model of the QueryForge translation engine                            *)
(* (src/unified_query_builder).  Text is modelled character by character:  *)
(* a Python str is a TLA+ string, scanned with SubSeq, and every regular   *)
(* expression of the source is an operator that returns the end of the     *)
(* match the Python `re` engine finds at a position (0: no match there).   *)
(* Positions are 1-based; a match at i that ends at e covers s[i..e-1].    *)
(***************************************************************************)
EXTENDS Integers, Sequences, FiniteSets, TLC

VARIABLES pc, args, ret, env

vars == <<pc, args, ret, env>>

(***************************************************************************)
(* Python values.  None, str, int, bool, list and dict are told apart by a *)
(* tag, as isinstance() tells them apart.                                  *)
(***************************************************************************)
None == [t |-> "none"]

Str(s) == [t |-> "str", v |-> s]

IntV(n) == [t |-> "int", v |-> n]

Bool(b) == [t |-> "bool", v |-> b]

List(q) == [t |-> "list", v |-> q]

\* Python truthiness of an Optional[str] / Optional[list] argument.
Truthy(x) ==
  CASE x.t = "none" -> FALSE
    [] x.t = "str" -> x.v # ""
    [] x.t = "list" -> Len(x.v) > 0
    [] x.t = "int" -> x.v # 0
    [] x.t = "bool" -> x.v
    [] x.t = "dict" -> \E k \in DOMAIN x \ {"t"} : x[k].t # "absent"
    [] x.t = "absent" -> FALSE
    [] OTHER -> TRUE

\* A local assignment `name = value` followed by the code that reads name:
\* Bind(value, LAMBDA name : rest).  The value is computed at most once.
Bind(value, Rest(_)) == Rest(value)

Max(S) == CHOOSE m \in S : \A n \in S : n <= m

MaxOrZero(S) == IF S = {} THEN 0 ELSE Max(S)

Min(S) == CHOOSE m \in S : \A n \in S : m <= n

MinOrZero(S) == IF S = {} THEN 0 ELSE Min(S)

Min2(a, b) == IF a <= b THEN a ELSE b

(***************************************************************************)
(* Characters and character classes.                                       *)
(***************************************************************************)
Char(s, i) == SubSeq(s, i, i)

CharsOf(s) == {Char(s, i) : i \in 1..Len(s)}

UpperStr == "ABCDEFGHIJKLMNOPQRSTUVWXYZ"

LowerStr == "abcdefghijklmnopqrstuvwxyz"

DigitStr == "0123456789"

\* The characters the model's texts are written in, in code point order
\* (tab, newline, form feed, carriage return, then 0x20..0x7e without the
\* backquote, which a TLA+ string cannot hold).
AsciiStr ==
  "\t\n\f\r !\"#$%&'()*+,-./0123456789:;<=>?@ABCDEFGHIJKLMNOPQRSTUVWXYZ[\\]^_abcdefghijklmnopqrstuvwxyz{|}~"

Upper == CharsOf(UpperStr)

Letters == CharsOf(UpperStr) \cup CharsOf(LowerStr)

Digits == CharsOf(DigitStr)

\* [a-f0-9] under re.IGNORECASE
HexDigits == Digits \cup CharsOf("abcdefABCDEF")

\* \w
WordChars == Letters \cup Digits \cup {"_"}

\* \s, and what str.strip() removes
Whitespace == {" ", "\t", "\n", "\r", "\f"}

LowerMap ==
  [c \in Upper |-> Char(LowerStr, CHOOSE i \in 1..Len(UpperStr) : Char(UpperStr, i) = c)]

UpperMap ==
  [c \in CharsOf(LowerStr) |-> Char(UpperStr, CHOOSE i \in 1..Len(LowerStr) : Char(LowerStr, i) = c)]

Ord ==
  [c \in CharsOf(AsciiStr) |-> CHOOSE i \in 1..Len(AsciiStr) : Char(AsciiStr, i) = c]

LowerChar(c) == IF c \in Upper THEN LowerMap[c] ELSE c

UpperChar(c) == IF c \in DOMAIN UpperMap THEN UpperMap[c] ELSE c

RECURSIVE MapPositions(_, _, _)
\* the str built from F(i) for every i of lo..hi, in order (one half of the
\* range after the other)
MapPositions(F(_), lo, hi) ==
  IF lo > hi THEN ""
  ELSE IF lo = hi THEN F(lo)
  ELSE MapPositions(F, lo, (lo + hi) \div 2)
         \o MapPositions(F, (lo + hi) \div 2 + 1, hi)

\* str built from F(c) for every character c of s, in order
MapChars(F(_), s) == MapPositions(LAMBDA i : F(Char(s, i)), 1, Len(s))

\* str.lower()
Lower(s) == MapChars(LowerChar, s)

\* str.upper()
UpperCase(s) == MapChars(UpperChar, s)

\* first position >= i whose character is not in cls (Len(s)+1 if none)
RunEnd(s, i, cls) ==
  IF i > Len(s) THEN i
  ELSE Min({j \in i..Len(s) : Char(s, j) \notin cls} \cup {Len(s) + 1})

\* first position >= i whose character is in cls (Len(s)+1 if none)
RunEndNot(s, i, cls) ==
  IF i > Len(s) THEN i
  ELSE Min({j \in i..Len(s) : Char(s, j) \in cls} \cup {Len(s) + 1})

\* one more than the last position <= i whose character is not in cls
RunStart(s, i, cls) ==
  IF i < 1 THEN i + 1
  ELSE Max({j \in 1..i : Char(s, j) \notin cls} \cup {0}) + 1

\* str.strip()
Strip(s) ==
  LET a == RunEnd(s, 1, Whitespace)
      b == RunStart(s, Len(s), Whitespace)
  IN IF a > Len(s) THEN "" ELSE SubSeq(s, a, b - 1)

\* s[i-1:].startswith(lit)
StartsWithAt(s, i, lit) ==
  i + Len(lit) - 1 <= Len(s) /\ SubSeq(s, i, i + Len(lit) - 1) = lit

\* the same, ignoring case (lit is lower case)
LowerAt(s, i, lit) ==
  /\ i + Len(lit) - 1 <= Len(s)
  /\ LowerChar(Char(s, i)) = Char(lit, 1)
  /\ Lower(SubSeq(s, i, i + Len(lit) - 1)) = lit

\* s.startswith(prefix)
StartsWith(s, prefix) == StartsWithAt(s, 1, prefix)

\* sub in s
Contains(s, sub) == \E i \in 1..(Len(s) + 1) : StartsWithAt(s, i, sub)

RECURSIVE ReplaceFrom(_, _, _, _)
\* s[i-1:].replace(old, new): occurrence after occurrence, leftmost first
ReplaceFrom(s, i, old, new) ==
  Bind(MinOrZero({j \in i..Len(s) : StartsWithAt(s, j, old)}), LAMBDA j :
    IF j = 0 THEN SubSeq(s, i, Len(s))
    ELSE SubSeq(s, i, j - 1) \o new \o ReplaceFrom(s, j + Len(old), old, new))

\* s.replace(old, new), old non-empty
Replace(s, old, new) == ReplaceFrom(s, 1, old, new)

RECURSIVE Join(_, _)
\* sep.join(parts)
Join(parts, sep) ==
  IF Len(parts) = 0 THEN ""
  ELSE IF Len(parts) = 1 THEN parts[1]
  ELSE parts[1] \o sep \o Join(Tail(parts), sep)

RECURSIVE StrLess(_, _)
\* a < b on Python strings (code point order)
StrLess(a, b) ==
  IF b = "" THEN FALSE
  ELSE IF a = "" THEN TRUE
  ELSE IF Head(a) = Head(b) THEN StrLess(Tail(a), Tail(b))
  ELSE Ord[Head(a)] < Ord[Head(b)]

RECURSIVE SortedStrings(_)
\* sorted(S) for a set S of strings
SortedStrings(S) ==
  IF S = {} THEN <<>>
  ELSE LET m == CHOOSE x \in S : \A y \in S \ {x} : StrLess(x, y)
       IN <<m>> \o SortedStrings(S \ {m})

RECURSIVE DigitsValue(_, _)
\* the number a run of decimal digits (underscores skipped) denotes
DigitsValue(s, acc) ==
  IF s = "" THEN acc
  ELSE IF Head(s) = "_" THEN DigitsValue(Tail(s), acc)
  ELSE DigitsValue(Tail(s),
                   acc * 10 + ((CHOOSE i \in 1..10 : Char(DigitStr, i) = Head(s)) - 1))

\* \b at position i (between s[i-1] and s[i])
AtBoundary(s, i) ==
  (i > 1 /\ i - 1 <= Len(s) /\ Char(s, i - 1) \in WordChars)
    # (i >= 1 /\ i <= Len(s) /\ Char(s, i) \in WordChars)

\* A greedy quantifier followed by \b: the largest end in lo..hi at a word
\* boundary, 0 if there is none.
GreedyBoundary(s, lo, hi) == MaxOrZero({j \in lo..hi : AtBoundary(s, j)})

\* A match: e is one past its last character (0: no match), g its group.
NoMatch == [e |-> 0, g |-> ""]

Matched(e, g) == [e |-> e, g |-> g]

\* the match whose group is s[from..e-1], no match if e is 0
MatchTo(s, from, e) == IF e > 0 THEN Matched(e, SubSeq(s, from, e - 1)) ELSE NoMatch

\* a or b: the first alternative that leads to a match
FirstPositive(a, b) == IF a > 0 THEN a ELSE b

RECURSIVE MatchesFrom(_, _, _)
\* the non-overlapping matches from position i on, leftmost first, where
\* at[j] is the outcome of the pattern at position j
MatchesFrom(s, at, i) ==
  Bind(MinOrZero({j \in i..Len(s) : at[j].e > 0}), LAMBDA j :
    IF j = 0 THEN <<>>
    ELSE <<[start |-> j, end |-> at[j].e, g |-> at[j].g,
            g0 |-> SubSeq(s, j, at[j].e - 1)]>>
           \o MatchesFrom(s, at, at[j].e))

\* regex.finditer(s), M the compiled pattern
FindAll(M(_, _), s) == MatchesFrom(s, [j \in 1..Len(s) |-> M(s, j)], 1)

(***************************************************************************)
(* s1/query_builder.py: the regular expressions.                           *)
(***************************************************************************)

\* \b[a-f0-9]{n}\b (IGNORECASE)
HexRunMatch(s, i, n) ==
  IF /\ AtBoundary(s, i)
     /\ RunEnd(s, i, HexDigits) >= i + n
     /\ AtBoundary(s, i + n)
  THEN Matched(i + n, SubSeq(s, i, i + n - 1))
  ELSE NoMatch

\* _MD5_RE = \b[a-f0-9]{32}\b (IGNORECASE)
s1_MD5_RE(s, i) == HexRunMatch(s, i, 32)

\* _SHA1_RE = \b[a-f0-9]{40}\b (IGNORECASE)
_SHA1_RE(s, i) == HexRunMatch(s, i, 40)

\* _SHA256_RE = \b[a-f0-9]{64}\b (IGNORECASE)
s1_SHA256_RE(s, i) == HexRunMatch(s, i, 64)

\* (?:\d{1,3}\.) at p, d the end of the digits at p
OctetDotAt(s, p, d) ==
  IF p > 0 /\ d > p /\ d - p <= 3 /\ StartsWithAt(s, d, ".") THEN d + 1 ELSE 0

\* one (?:\d{1,3}\.) group at p: the position after its dot, 0 if none
OctetDot(s, p) == OctetDotAt(s, p, RunEnd(s, p, Digits))

\* \d{1,n}\b at p, d the end of the digits at p: greedy, backing off to a
\* word boundary
DigitsThenBoundary(s, p, d, n) ==
  IF p > 0 /\ d > p THEN GreedyBoundary(s, p + 1, Min2(d, p + n)) ELSE 0

\* the match of _IPV4_RE at i whose three dotted groups end at p3
LastOctet(s, i, p3) ==
  IF AtBoundary(s, i)
  THEN MatchTo(s, i, DigitsThenBoundary(s, p3, RunEnd(s, p3, Digits), 3))
  ELSE NoMatch

\* _IPV4_RE = \b(?:\d{1,3}\.){3}\d{1,3}\b
s1_IPV4_RE(s, i) == LastOctet(s, i, OctetDot(s, OctetDot(s, OctetDot(s, i))))

\* (?:[0-9a-f]{0,4}:) at p, h the end of the hex digits at p
HextetColonAt(s, p, h) ==
  IF h - p <= 4 /\ StartsWithAt(s, h, ":") THEN h + 1 ELSE 0

\* one (?:[0-9a-f]{0,4}:) group at p: the position after its colon, 0 if none
HextetColon(s, p) == HextetColonAt(s, p, RunEnd(s, p, HexDigits))

\* the trailing [0-9a-f]{0,4}\b at p: greedy, backing off to a word boundary
HextetTail(s, p) ==
  GreedyBoundary(s, p, Min2(RunEnd(s, p, HexDigits), p + 4))

RECURSIVE HextetGroups(_, _, _)
RECURSIVE HextetGroupsAfter(_, _, _, _)
\* (?:[0-9a-f]{0,4}:){2,7} after k groups, then the tail: one more group is
\* tried first, and the tail only when that leads to no match.
HextetGroups(s, p, k) == HextetGroupsAfter(s, p, k, HextetColon(s, p))

\* the same, g the end of the group that starts at p (0 if there is none)
HextetGroupsAfter(s, p, k, g) ==
  FirstPositive(IF k < 7 /\ g > 0 THEN HextetGroups(s, g, k + 1) ELSE 0,
                IF k >= 2 THEN HextetTail(s, p) ELSE 0)

\* _IPV6_RE = \b(?:[0-9a-f]{0,4}:){2,7}[0-9a-f]{0,4}\b (IGNORECASE)
_IPV6_RE(s, i) ==
  MatchTo(s, i, IF AtBoundary(s, i) THEN HextetGroups(s, i, 0) ELSE 0)

\* the optional (?:=|is|:) of _PORT_RE at p: the position after it
PortSeparator(s, p) ==
  IF StartsWithAt(s, p, "=") THEN p + 1
  ELSE IF LowerAt(s, p, "is") THEN p + 2
  ELSE IF StartsWithAt(s, p, ":") THEN p + 1
  ELSE p

\* the match of _PORT_RE at i whose (\d{1,5}) starts at p
PortDigits(s, i, p) ==
  IF AtBoundary(s, i) /\ LowerAt(s, i, "port")
  THEN MatchTo(s, p, DigitsThenBoundary(s, p, RunEnd(s, p, Digits), 5))
  ELSE NoMatch

\* _PORT_RE = \bport\s*(?:=|is|:)?\s*(\d{1,5})\b (IGNORECASE)
_PORT_RE(s, i) ==
  PortDigits(s, i, RunEnd(s, PortSeparator(s, RunEnd(s, i + 4, Whitespace)), Whitespace))

\* [a-zA-Z0-9_\\-]
ProcessNameChars == WordChars \cup {"\\", "-"}

\* (?:exe|dll|bat|cmd|ps1|vbs)
BinaryExtensions == {"exe", "dll", "bat", "cmd", "ps1", "vbs"}

\* the match of _PROCESS_BINARY_RE at i whose name ends before r
BinaryNameTo(s, i, r) ==
  IF /\ AtBoundary(s, i)
     /\ r > i
     /\ StartsWithAt(s, r, ".")
     /\ r + 3 <= Len(s)
     /\ Lower(SubSeq(s, r + 1, r + 3)) \in BinaryExtensions
     /\ AtBoundary(s, r + 4)
  THEN Matched(r + 4, SubSeq(s, i, r + 3))
  ELSE NoMatch

\* _PROCESS_BINARY_RE = \b([a-zA-Z0-9_\\-]+\.(?:exe|dll|bat|cmd|ps1|vbs))\b
\* (IGNORECASE)
_PROCESS_BINARY_RE(s, i) == BinaryNameTo(s, i, RunEnd(s, i, ProcessNameChars))

\* [\s'\"], the characters that end a path
PathStopChars == Whitespace \cup {"'", "\""}

\* _FILE_PATH_RE = ([A-Za-z]:\\[^\s'\"]+|/[^\s'\"]+)
s1_FILE_PATH_RE(s, i) ==
  LET w == RunEndNot(s, i + 3, PathStopChars)
      u == RunEndNot(s, i + 1, PathStopChars)
  IN IF /\ i <= Len(s)
        /\ Char(s, i) \in Letters
        /\ StartsWithAt(s, i + 1, ":\\")
        /\ w > i + 3
     THEN Matched(w, SubSeq(s, i, w - 1))
     ELSE IF StartsWithAt(s, i, "/") /\ u > i + 1
     THEN Matched(u, SubSeq(s, i, u - 1))
     ELSE NoMatch

\* ['\"]? at p: the position after the optional quote
SkipQuote(s, p) ==
  IF p <= Len(s) /\ Char(s, p) \in {"'", "\""} THEN p + 1 ELSE p

\* (cls+)['\"]? where the run of cls from a ends before b
TokenTo(s, a, b) ==
  IF b > a THEN Matched(SkipQuote(s, b), SubSeq(s, a, b - 1)) ELSE NoMatch

\* (cls+)['\"]? at a
TokenFrom(s, a, cls) == TokenTo(s, a, RunEnd(s, a, cls))

\* ['\"]?(cls+)['\"]? at p: the tail shared by _USERNAME_RE and _DOMAIN_RE
QuotedToken(s, p, cls) == TokenFrom(s, SkipQuote(s, p), cls)

RECURSIVE KeywordThenToken(_, _, _, _)
RECURSIVE KeywordOrNext(_, _, _, _, _)
\* (?:k1|k2|...)?\s*['\"]?(cls+)['\"]? at p: the alternatives in order, each
\* kept only if the rest then matches, and last the empty alternative
KeywordThenToken(s, p, keywords, cls) ==
  IF Len(keywords) = 0 THEN QuotedToken(s, p, cls)
  ELSE KeywordOrNext(
         IF LowerAt(s, p, Head(keywords))
         THEN QuotedToken(s, RunEnd(s, p + Len(Head(keywords)), Whitespace), cls)
         ELSE NoMatch,
         s, p, Tail(keywords), cls)

\* m, the match through the first alternative, or else the other alternatives
KeywordOrNext(m, s, p, keywords, cls) ==
  IF m.e > 0 THEN m ELSE KeywordThenToken(s, p, keywords, cls)

\* [A-Za-z0-9_.@-]
UsernameChars == WordChars \cup {".", "@", "-"}

\* [A-Za-z0-9_.-]
DomainChars == WordChars \cup {".", "-"}

\* \s+ from n to w, then the optional keyword and the token
SpacesTo(s, n, w, keywords, cls) ==
  IF w > n THEN KeywordThenToken(s, w, keywords, cls) ELSE NoMatch

\* \s+(?:k1|k2|...)?\s*['\"]?(cls+)['\"]? at n
SpacesThenKeyword(s, n, keywords, cls) ==
  SpacesTo(s, n, RunEnd(s, n, Whitespace), keywords, cls)

\* _USERNAME_RE =
\*   user(?:name)?\s+(?:is|=|equals|like)?\s*['\"]?([A-Za-z0-9_.@-]+)['\"]?
\* (IGNORECASE)
_USERNAME_RE(s, i) ==
  IF LowerAt(s, i, "user")
  THEN SpacesThenKeyword(s, IF LowerAt(s, i + 4, "name") THEN i + 8 ELSE i + 4,
                         <<"is", "=", "equals", "like">>, UsernameChars)
  ELSE NoMatch

\* _DOMAIN_RE =
\*   domain\s+(?:is|=|equals|like|contains)?\s*['\"]?([A-Za-z0-9_.-]+)['\"]?
\* (IGNORECASE)
_DOMAIN_RE(s, i) ==
  IF LowerAt(s, i, "domain")
  THEN SpacesThenKeyword(s, i + 6, <<"is", "=", "equals", "like", "contains">>,
                         DomainChars)
  ELSE NoMatch

RECURSIVE QuotedBodyEnd(_, _, _)
\* [^q\\]*(?:\\.[^q\\]*)*q from p: the position of the closing quote q, 0 if
\* the text ends, or a backslash is followed by nothing or a newline, first
QuotedBodyEnd(s, p, q) ==
  Bind(RunEndNot(s, p, {q, "\\"}), LAMBDA r :
    IF r > Len(s) THEN 0
    ELSE IF Char(s, r) = q THEN r
    ELSE IF r + 1 <= Len(s) /\ Char(s, r + 1) # "\n"
         THEN QuotedBodyEnd(s, r + 2, q)
         ELSE 0)

\* _QUOTED_RE = "([^"\\]*(?:\\.[^"\\]*)*)"|'([^'\\]*(?:\\.[^'\\]*)*)'
\* g is match.group(1) or match.group(2)
_QUOTED_RE(s, i) ==
  LET q == Char(s, i)
      c == QuotedBodyEnd(s, i + 1, q)
  IN IF i <= Len(s) /\ q \in {"\"", "'"} /\ c > 0
     THEN Matched(c + 1, SubSeq(s, i + 1, c - 1))
     ELSE NoMatch

\* double_quote_pattern = "([^"\\]*(?:\\.[^"\\]*)*)"
double_quote_pattern(s, i) ==
  LET c == QuotedBodyEnd(s, i + 1, "\"")
  IN IF StartsWithAt(s, i, "\"") /\ c > 0
     THEN Matched(c + 1, SubSeq(s, i + 1, c - 1))
     ELSE NoMatch

\* cmdline_pattern = [-/]([a-zA-Z][a-zA-Z0-9_]*); g is match.group(0)
cmdline_pattern(s, i) ==
  LET r == RunEnd(s, i + 2, WordChars)
  IN IF /\ i + 1 <= Len(s)
        /\ Char(s, i) \in {"-", "/"}
        /\ Char(s, i + 1) \in Letters
     THEN Matched(r, SubSeq(s, i, r - 1))
     ELSE NoMatch

(***************************************************************************)
(* s1/query_builder.py: the module-level tables.  A dict is a sequence of  *)
(* <<key, value>> pairs in insertion order where the code iterates it.     *)
(***************************************************************************)
DEFAULT_BOOLEAN_OPERATOR == "AND"

s1_DEFAULT_DATASET == "processes"

_DATASET_KEYWORDS ==
  << <<"process", "processes">>, <<"processes", "processes">>,
     <<"executable", "processes">>, <<"file", "files">>, <<"files", "files">>,
     <<"dns", "dns">>, <<"network", "network_actions">>,
     <<"connection", "network_actions">>, <<"connections", "network_actions">>,
     <<"traffic", "network_actions">>, <<"url", "url">>, <<"http", "url">>,
     <<"login", "logins">>, <<"logon", "logins">>, <<"module", "modules">>,
     <<"driver", "driver">>, <<"registry", "registry">>,
     <<"scheduled task", "scheduled_tasks">>, <<"task", "scheduled_tasks">>,
     <<"indicator", "indicators">>, <<"script", "command_scripts">>,
     <<"cross process", "cross_process">> >>

_DATASET_EVENT_FILTERS ==
  [processes |-> <<"PROCESSCREATION">>,
   files |-> <<"FILESCAN", "FILERENAME", "FILEDELETION", "FILECREATION",
               "FILEMODIFICATION", "MALICIOUSFILE">>,
   dns |-> <<"DNS">>,
   url |-> <<"HTTP">>,
   modules |-> <<"MODULELOAD">>,
   registry |-> <<"REGKEYCREATE", "REGKEYDELETE", "REGVALUEMODIFIED",
                  "REGVALUECREATE", "REGKEYRENAME", "REGVALUEDELETE",
                  "REGKEYEXPORT", "REGKEYSECURITYCHANGED", "REGKEYIMPORT">>,
   indicators |-> <<"BEHAVIORALINDICATORS">>]

_STOPWORDS ==
  {"find", "show", "list", "display", "all", "events", "event", "process",
   "processes", "files", "file", "connections", "network", "where", "that",
   "with", "for", "and", "the", "a", "an", "from", "to"}

_HASH_FIELD_CANDIDATES ==
  [md5 |-> <<"tgt.file.md5", "tgt.file.image.md5", "src.file.md5",
             "tgt.process.image.md5", "src.process.image.md5">>,
   sha1 |-> <<"tgt.file.sha1", "src.file.sha1", "tgt.process.image.sha1",
              "src.process.image.sha1">>,
   sha256 |-> <<"tgt.file.sha256", "src.file.sha256", "tgt.process.image.sha256",
                "src.process.image.sha256">>]

_IP_FIELD_CANDIDATES ==
  <<"dst.ip.address", "src.ip.address", "network.ip", "network.dns.resolvedIp">>

_DOMAIN_FIELD_CANDIDATES ==
  <<"network.http.host", "dns.request.domain", "dns.response.domain", "url.address">>

_PROCESS_NAME_FIELDS ==
  <<"tgt.process.displayName", "tgt.process.name", "src.process.displayName",
    "src.process.name", "osSrc.process.displayName", "osSrc.process.name">>

_CMDLINE_FIELDS ==
  <<"tgt.process.cmdline", "src.process.cmdline", "osSrc.process.cmdline">>

_FILE_NAME_FIELDS ==
  <<"tgt.file.name", "tgt.file.path", "src.file.name", "src.file.path">>

_USERNAME_FIELDS ==
  <<"actor.user.name", "identity.user.username", "src.process.user", "tgt.process.user">>

_PORT_FIELDS == <<"dst.port.number", "src.port.number">>

(***************************************************************************)
(* Exceptions and results.  An operator that can raise returns either      *)
(* Raise(...) or a record with ok = TRUE.                                  *)
(***************************************************************************)
Raise(exc, msg) == [ok |-> FALSE, exc |-> exc, msg |-> msg]

Return(v) == [ok |-> TRUE, v |-> v]

(***************************************************************************)
(* A schema is [datasets, common_fields, operators, operator_variants]:    *)
(* datasets a sequence of [key, name, fields, metadata] (the dict's        *)
(* insertion order), fields and common_fields functions from field name to *)
(* [data_type], operators a sequence of [name, symbols], operator_variants *)
(* a sequence of lists of operator strings.                                *)
(***************************************************************************)
DatasetKeys(schema) == {schema.datasets[i].key : i \in 1..Len(schema.datasets)}

DatasetMeta(schema, key) ==
  schema.datasets[CHOOSE i \in 1..Len(schema.datasets) : schema.datasets[i].key = key]

\* the loop over _DATASET_KEYWORDS.items(): the key of the first keyword
\* that occurs in lowered and whose key satisfies Accept, None if none does
FirstKeyword(table, lowered, Accept(_)) ==
  Bind(MinOrZero({i \in 1..Len(table) :
                    Accept(table[i][2]) /\ Contains(lowered, table[i][1])}), LAMBDA i :
    IF i = 0 THEN None ELSE Str(table[i][2]))

\* the key of the first dataset among hits (indices into the schema's
\* datasets), None if there is none
FirstDatasetOf(schema, hits) ==
  IF hits = {} THEN None
  ELSE Str(schema.datasets[CHOOSE i \in hits : \A j \in hits : i <= j].key)

\* infer_dataset's match by display name: the first dataset whose name,
\* lower-cased, equals the lower-cased request
DisplayNameMatch(dataset, schema) ==
  FirstDatasetOf(schema, {i \in 1..Len(schema.datasets) :
                            /\ schema.datasets[i].name.t = "str"
                            /\ Lower(schema.datasets[i].name.v) = Lower(dataset)})

\* infer_dataset's answer to an explicit dataset: the normalised key if the
\* schema has it, else the match by display name
ExplicitDataset(dataset, schema, key) ==
  IF key \in DatasetKeys(schema) THEN Str(key) ELSE DisplayNameMatch(dataset, schema)

\* the first of a and b that is not None
FirstNotNone(a, b) == IF a # None THEN a ELSE b

\* the same with the keywords of the free text tried before the request
InferDatasetIntentFirst(dataset, intent, schema) ==
  LET InSchema(k) == k \in DatasetKeys(schema)
  IN IF Len(schema.datasets) = 0 THEN None
     ELSE FirstNotNone(
            IF ~Truthy(intent) THEN None
            ELSE FirstKeyword(_DATASET_KEYWORDS, Lower(intent.v), InSchema),
            FirstNotNone(
              IF ~Truthy(dataset) THEN None
              ELSE ExplicitDataset(dataset.v, schema,
                                   Replace(Lower(Strip(dataset.v)), " ", "_")),
              IF s1_DEFAULT_DATASET \in DatasetKeys(schema)
              THEN Str(s1_DEFAULT_DATASET)
              ELSE Str(schema.datasets[1].key)))

\* infer_dataset(dataset, natural_language_intent, schema)
infer_dataset(dataset, intent, schema) ==
  LET InSchema(k) == k \in DatasetKeys(schema)
  IN IF Len(schema.datasets) = 0 THEN None
     ELSE FirstNotNone(
            IF ~Truthy(dataset) THEN None
            ELSE ExplicitDataset(dataset.v, schema,
                                 Replace(Lower(Strip(dataset.v)), " ", "_")),
            FirstNotNone(
              IF ~Truthy(intent) THEN None
              ELSE FirstKeyword(_DATASET_KEYWORDS, Lower(intent.v), InSchema),
              IF s1_DEFAULT_DATASET \in DatasetKeys(schema)
              THEN Str(s1_DEFAULT_DATASET)
              ELSE Str(schema.datasets[1].key)))

\* _collect_fields(schema, dataset): dict(common) updated with the dataset's
s1_collect_fields(schema, dataset) ==
  LET common == schema.common_fields
      own == IF Truthy(dataset) /\ dataset.v \in DatasetKeys(schema)
             THEN DatasetMeta(schema, dataset.v).fields
             ELSE <<>>
  IN [f \in DOMAIN common \cup DOMAIN own |->
        IF f \in DOMAIN own THEN own[f] ELSE common[f]]

RECURSIVE ChooseFrom(_, _, _)
ChooseFrom(fields, candidates, i) ==
  IF i > Len(candidates) THEN None
  ELSE IF candidates[i] \in DOMAIN fields THEN Str(candidates[i])
  ELSE ChooseFrom(fields, candidates, i + 1)

\* _choose_field(fields, candidates)
_choose_field(fields, candidates) == ChooseFrom(fields, candidates, 1)

(***************************************************************************)
(* s1/query_builder.py: operators, quoting and the filter builder.         *)
(***************************************************************************)
RECURSIVE Flatten(_)
\* the concatenation of a sequence of sequences
Flatten(qq) == IF Len(qq) = 0 THEN <<>> ELSE Head(qq) \o Flatten(Tail(qq))

\* The dict a sequence of assignments d[k] = v leaves: a later assignment
\* to a key replaces the earlier one.
DictOf(assignments) ==
  [k \in {assignments[i][1] : i \in 1..Len(assignments)} |->
     assignments[Max({i \in 1..Len(assignments) : assignments[i][1] = k})][2]]

\* the same with the name always mapped to the first symbol
OperatorEntriesFirstSymbol(op) ==
  [i \in 1..Len(op.symbols) |-> <<Lower(op.symbols[i]), op.symbols[i]>>]
    \o (IF Len(op.symbols) > 0 /\ op.symbols[1] # "" /\ op.name # ""
        THEN << <<Lower(op.name), op.symbols[1]>> >>
        ELSE <<>>)

\* The assignments _build_operator_map makes for one documented operator:
\* every symbol (lower-cased) to itself, then the name (lower-cased) to "="
\* if "=" is among the symbols and else to the first symbol.
OperatorEntries(op) ==
  LET symbols == op.symbols
      canonical == IF \E i \in 1..Len(symbols) : symbols[i] = "=" THEN "="
                   ELSE IF Len(symbols) > 0 THEN symbols[1]
                   ELSE ""
  IN [i \in 1..Len(symbols) |-> <<Lower(symbols[i]), symbols[i]>>]
       \o (IF canonical # "" /\ op.name # ""
           THEN << <<Lower(op.name), canonical>> >>
           ELSE <<>>)

\* The assignments for one list of type-specific variants.
VariantEntries(variant_ops) ==
  [i \in 1..Len(variant_ops) |-> <<Lower(variant_ops[i]), variant_ops[i]>>]

\* _build_operator_map(schema)
_build_operator_map(schema) ==
  DictOf(Flatten([i \in 1..Len(schema.operators) |-> OperatorEntries(schema.operators[i])])
           \o Flatten([i \in 1..Len(schema.operator_variants) |->
                         VariantEntries(schema.operator_variants[i])]))

\* operator_map.get(key)
MapGet(operator_map, key) ==
  IF key \in DOMAIN operator_map THEN Str(operator_map[key]) ELSE None

\* the entry _normalize_operator finds for the lower-cased operator: the
\* direct one, else the one of its spelling variant
NormalizedEntry(operator_map, key) ==
  FirstNotNone(MapGet(operator_map, key),
               IF key = "==" THEN MapGet(operator_map, "=")
               ELSE IF key \in {"contains ignorecase", "containsignorecase"}
                    THEN MapGet(operator_map, "contains anycase")
               ELSE None)

\* what _normalize_operator returns or raises, normalized the entry found
NormalizedOrRaise(operator, normalized) ==
  IF normalized = None
  THEN Raise("ValueError",
             "Unknown operator '" \o operator \o "'. Please check the S1 operator schema.")
  ELSE Return(normalized.v)

\* _normalize_operator(operator, operator_map)
_normalize_operator(operator, operator_map) ==
  NormalizedOrRaise(operator, NormalizedEntry(operator_map, Lower(operator)))

\* a quoting that escapes the single quotes first and doubles the
\* backslashes after
QuoteEscapingQuotesFirst(value) ==
  "'" \o Replace(Replace(value, "'", "\\'"), "\\", "\\\\") \o "'"

\* _quote(value)
_quote(value) ==
  "'" \o Replace(Replace(value, "\\", "\\\\"), "'", "\\'") \o "'"

\* str(value) for the scalar values a filter carries
PyStr(value) ==
  CASE value.t = "str" -> value.v
    [] value.t = "int" -> ToString(value.v)
    [] value.t = "bool" -> IF value.v THEN "True" ELSE "False"
    [] value.t = "none" -> "None"

\* decimal digits with single underscores between them
WellFormedDigits(digits) ==
  /\ digits # ""
  /\ \A i \in 1..Len(digits) : Char(digits, i) \in Digits \cup {"_"}
  /\ Head(digits) # "_"
  /\ Char(digits, Len(digits)) # "_"
  /\ ~Contains(digits, "__")

\* int(text) for the stripped text t: negative says a minus sign leads t,
\* digits is t without its sign
SignedDigits(text, negative, digits) ==
  IF WellFormedDigits(digits)
  THEN Return(IF negative THEN 0 - DigitsValue(digits, 0) ELSE DigitsValue(digits, 0))
  ELSE Raise("ValueError", "invalid literal for int() with base 10: " \o _quote(text))

\* int(text) for the stripped text t
StrippedInt(text, t) ==
  IF t # "" /\ Head(t) \in {"+", "-"}
  THEN SignedDigits(text, Head(t) = "-", Tail(t))
  ELSE SignedDigits(text, FALSE, t)

\* int(text): optional surrounding whitespace, an optional sign, then
\* decimal digits with single underscores between them
PyInt(text) == StrippedInt(text, Strip(text))

\* str(int(value)) if the conversion succeeds, else the quoted str(value)
IntOrQuoted(value, converted) ==
  IF converted.ok THEN ToString(converted.v) ELSE _quote(PyStr(value))

\* one element of _format_values
FormatOne(value, data_type) ==
  IF value.t \in {"int", "bool"} THEN PyStr(value)
  ELSE IF /\ data_type # ""
          /\ Lower(data_type) \in {"numeric", "integer"}
          /\ value.t = "str"
       THEN IntOrQuoted(value, PyInt(value.v))
  ELSE _quote(PyStr(value))

\* _format_values(values, data_type)
_format_values(values, data_type) ==
  Join([i \in 1..Len(values) |-> FormatOne(values[i], data_type)], ", ")

\* replace_double_quotes(match), on the group of the match
replace_double_quotes(content) ==
  "'" \o Replace(Replace(Replace(content, "\\\"", "\""), "\\", "\\\\"), "'", "\\'") \o "'"

RECURSIVE SubMatches(_, _, _, _, _)
\* pattern.sub(Repl, s): the text between the matches kept, each match
\* replaced by Repl of its group
SubMatches(Repl(_), s, matches, k, pos) ==
  IF k > Len(matches) THEN SubSeq(s, pos, Len(s))
  ELSE SubSeq(s, pos, matches[k].start - 1) \o Repl(matches[k].g)
         \o SubMatches(Repl, s, matches, k + 1, matches[k].end)

\* _normalize_filter_string(expression)
_normalize_filter_string(expression) ==
  SubMatches(replace_double_quotes, expression,
             FindAll(double_quote_pattern, expression), 1, 1)

\* the characters _sanitise_expression refuses
UnsafeChars == {";", "|", "\n"}

\* _sanitise_expression(expression)
_sanitise_expression(expression) ==
  IF \E c \in UnsafeChars : Contains(expression, c)
  THEN Raise("ValueError", "Unsafe characters detected in expression")
  ELSE Return(expression)

\* A filter item is a str, a dict [t |-> "dict", field, operator, value]
\* (a key the dict lacks is Absent) or any other value.
Absent == [t |-> "absent"]

Dict(field, operator, value) ==
  [t |-> "dict", field |-> field, operator |-> operator, value |-> value]

\* what _build_filter_expression returns
Built(expression, meta) == [ok |-> TRUE, expression |-> expression, meta |-> meta]

\* _sanitise_expression(expression), meta
SanitisedWith(expression, meta) ==
  Bind(_sanitise_expression(expression), LAMBDA sanitised :
    IF sanitised.ok THEN Built(expression, meta) ELSE sanitised)

\* a fallback that renders "=" in place of an operator it cannot normalize
NormalizedOrEquals(operator, operator_map) ==
  Bind(_normalize_operator(operator, operator_map), LAMBDA normalized :
    IF normalized.ok THEN normalized.v ELSE "=")

\* The operator a structured filter is rendered with: the normalized one,
\* or the caller's own when normalization raises (the except branch).
NormalizedOrVerbatim(operator, operator_map) ==
  Bind(_normalize_operator(operator, operator_map), LAMBDA normalized :
    IF normalized.ok THEN normalized.v ELSE operator)

\* a field test that accepts every field name
FieldNeverMissing(field, fields) == FALSE

\* `field not in fields`: the structured filter names no field of the map
FieldMissing(field, fields) == field \notin DOMAIN fields

\* str(fields.get(field, {}).get("data_type", "")).lower()
FieldDataType(fields, field) ==
  IF field \in DOMAIN fields /\ "data_type" \in DOMAIN fields[field]
  THEN Lower(fields[field].data_type)
  ELSE ""

\* the scalar branch of _build_filter_expression for a field of a numeric
\* type: converted is int(str(value))
NumericFilter(field, operator, converted, meta) ==
  IF converted.ok
  THEN SanitisedWith(field \o " " \o operator \o " " \o ToString(converted.v), meta)
  ELSE Raise("ValueError", "Field '" \o field \o "' expects a numeric value")

\* the same with only "numeric" taken for a numeric type: a string for an
\* integer field is quoted
StructuredFilterNumericOnly(field, operator, value, data_type, meta) ==
  IF value.t = "list"
  THEN SanitisedWith(
         field \o " " \o operator \o " (" \o _format_values(value.v, data_type) \o ")",
         meta)
  ELSE IF value.t = "none"
  THEN Raise("ValueError", "Filter dictionaries must include a 'value'")
  ELSE IF value.t \in {"int", "bool"}
  THEN SanitisedWith(field \o " " \o operator \o " " \o PyStr(value), meta)
  ELSE IF data_type = "numeric"
  THEN NumericFilter(field, operator, PyInt(PyStr(value)), meta)
  ELSE SanitisedWith(field \o " " \o operator \o " " \o _quote(PyStr(value)), meta)

\* _build_filter_expression for a dict whose field and operator passed the
\* checks: operator is the normalized operator, data_type the field's type
StructuredFilter(field, operator, value, data_type, meta) ==
  IF value.t = "list"
  THEN SanitisedWith(
         field \o " " \o operator \o " (" \o _format_values(value.v, data_type) \o ")",
         meta)
  ELSE IF value.t = "none"
  THEN Raise("ValueError", "Filter dictionaries must include a 'value'")
  ELSE IF value.t \in {"int", "bool"}
  THEN SanitisedWith(field \o " " \o operator \o " " \o PyStr(value), meta)
  ELSE IF data_type \in {"numeric", "integer"}
  THEN NumericFilter(field, operator, PyInt(PyStr(value)), meta)
  ELSE SanitisedWith(field \o " " \o operator \o " " \o _quote(PyStr(value)), meta)

\* _build_filter_expression(item, fields, operator_map)
_build_filter_expression(item, fields, operator_map) ==
  IF item.t = "str"
  THEN SanitisedWith(_normalize_filter_string(Strip(item.v)), [source |-> "user"])
  ELSE IF item.t # "dict"
  THEN Raise("TypeError", "Filters must be either strings or dictionaries")
  ELSE IF item.field.t # "str"
  THEN Raise("ValueError", "Filter dictionaries must include a string 'field'")
  ELSE IF FieldMissing(item.field.v, fields)
  THEN Raise("ValueError",
             "Field '" \o item.field.v \o "' is not present in the selected dataset")
  ELSE IF item.operator # Absent /\ (item.operator.t # "str" \/ item.operator.v = "")
  THEN Raise("ValueError", "Operator must be a non-empty string")
  ELSE
    Bind(NormalizedOrVerbatim(IF item.operator = Absent THEN "=" ELSE item.operator.v,
                              operator_map), LAMBDA operator :
    Bind(IF item.value = Absent THEN None ELSE item.value, LAMBDA value :
      StructuredFilter(item.field.v, operator, value,
                       FieldDataType(fields, item.field.v),
                       [field |-> item.field.v, operator |-> operator, value |-> value])))

(***************************************************************************)
(* s1/query_builder.py: the extraction passes over the free text.  Each    *)
(* returns a sequence of [expression, meta] pairs.                         *)
(***************************************************************************)
Pair(expression, meta) == [expression |-> expression, meta |-> meta]

\* the pairs _collect_hash_expressions appends for one label: field is the
\* field chosen for it, ms the matches of its regex
HashPass(label, field, ms) ==
  IF field = None THEN <<>>
  ELSE [k \in 1..Len(ms) |->
          Pair(field.v \o " in:matchcase (" \o _quote(ms[k].g0) \o ")",
               [type |-> label, value |-> Str(ms[k].g0), field |-> field.v])]

\* _collect_hash_expressions(text, fields)
_collect_hash_expressions(text, fields) ==
  HashPass("sha256", _choose_field(fields, _HASH_FIELD_CANDIDATES.sha256),
           FindAll(s1_SHA256_RE, text))
    \o HashPass("sha1", _choose_field(fields, _HASH_FIELD_CANDIDATES.sha1),
                FindAll(_SHA1_RE, text))
    \o HashPass("md5", _choose_field(fields, _HASH_FIELD_CANDIDATES.md5),
                FindAll(s1_MD5_RE, text))

\* the pairs _collect_ip_expressions appends for one label
IpPass(label, field, ms) ==
  IF field = None THEN <<>>
  ELSE [k \in 1..Len(ms) |->
          Pair(field.v \o " = " \o _quote(ms[k].g0),
               [type |-> label, value |-> Str(ms[k].g0), field |-> field.v])]

\* _collect_ip_expressions(text, fields)
_collect_ip_expressions(text, fields) ==
  Bind(_choose_field(fields, _IP_FIELD_CANDIDATES), LAMBDA field :
    IpPass("ipv4", field, FindAll(s1_IPV4_RE, text))
      \o IpPass("ipv6", field, FindAll(_IPV6_RE, text)))

\* the pairs of a pass that renders every match as `field <op> '<group>'`,
\* closed by tail
GroupPass(label, field, op, tail, ms) ==
  IF field = None THEN <<>>
  ELSE [k \in 1..Len(ms) |->
          Pair(field.v \o op \o _quote(ms[k].g) \o tail,
               [type |-> label, value |-> Str(ms[k].g), field |-> field.v])]

\* _collect_domain_expressions(text, fields)
_collect_domain_expressions(text, fields) ==
  GroupPass("domain", _choose_field(fields, _DOMAIN_FIELD_CANDIDATES),
            " contains:anycase ", "", FindAll(_DOMAIN_RE, text))

\* _collect_username_expressions(text, fields)
_collect_username_expressions(text, fields) ==
  GroupPass("username", _choose_field(fields, _USERNAME_FIELDS),
            " in:anycase (", ")", FindAll(_USERNAME_RE, text))

\* the one pair _collect_process_expressions appends for the sorted,
\* lower-cased binary names
ProcessPair(field, unique_values) ==
  << Pair(field.v \o " in:anycase ("
            \o Join([k \in 1..Len(unique_values) |-> _quote(unique_values[k])], ", ")
            \o ")",
          [type |-> "process_name", values |-> unique_values, field |-> field.v]) >>

\* _collect_process_expressions for the chosen field and the matches
ProcessPass(field, ms) ==
  IF field = None \/ Len(ms) = 0 THEN <<>>
  ELSE ProcessPair(field, SortedStrings({Lower(ms[k].g) : k \in 1..Len(ms)}))

\* _collect_process_expressions(text, fields)
_collect_process_expressions(text, fields) ==
  ProcessPass(_choose_field(fields, _PROCESS_NAME_FIELDS),
              FindAll(_PROCESS_BINARY_RE, text))

\* _collect_path_expressions(text, fields)
_collect_path_expressions(text, fields) ==
  GroupPass("path", _choose_field(fields, _FILE_NAME_FIELDS),
            " contains:anycase ", "", FindAll(s1_FILE_PATH_RE, text))

\* the quoted strings _collect_cmdline_expressions keeps
KeepQuoted(m) == m.g # "" /\ ~(Lower(m.g) \in _STOPWORDS \/ Len(m.g) < 3)

\* the flags _collect_cmdline_expressions keeps
KeepFlag(m) == Len(m.g) > 2

\* the matches _collect_cmdline_expressions renders: the quoted strings, or
\* the flags when there is none and the text mentions cmdline
CmdlineMatches(text, quoted) ==
  IF Len(quoted) = 0 /\ Contains(Lower(text), "cmdline")
  THEN SelectSeq(FindAll(cmdline_pattern, text), KeepFlag)
  ELSE quoted

\* _collect_cmdline_expressions(text, fields)
_collect_cmdline_expressions(text, fields) ==
  GroupPass("cmdline", _choose_field(fields, _CMDLINE_FIELDS),
            " contains:anycase ", "",
            CmdlineMatches(text, SelectSeq(FindAll(_QUOTED_RE, text), KeepQuoted)))

\* 0 < port <= 65535
PortInRange(m) == 0 < DigitsValue(m.g, 0) /\ DigitsValue(m.g, 0) <= 65535

\* _collect_port_expressions for the chosen field and the ports in range
PortPass(field, ms) ==
  IF field = None THEN <<>>
  ELSE [k \in 1..Len(ms) |->
          Pair(field.v \o " = " \o ToString(DigitsValue(ms[k].g, 0)),
               [type |-> "port", value |-> IntV(DigitsValue(ms[k].g, 0)),
                field |-> field.v])]

\* _collect_port_expressions(text, fields)
_collect_port_expressions(text, fields) ==
  PortPass(_choose_field(fields, _PORT_FIELDS),
           SelectSeq(FindAll(_PORT_RE, text), PortInRange))

RECURSIVE DeduplicateForgetting(_, _, _)
\* the loop of _deduplicate without seen.add(expression)
DeduplicateForgetting(expressions, i, seen) ==
  IF i > Len(expressions) THEN <<>>
  ELSE IF expressions[i].expression \in seen
       THEN DeduplicateForgetting(expressions, i + 1, seen)
       ELSE <<expressions[i]>> \o DeduplicateForgetting(expressions, i + 1, seen)

RECURSIVE DeduplicateFrom(_, _, _)
\* the loop of _deduplicate from position i on: seen holds the expressions
\* met before
DeduplicateFrom(expressions, i, seen) ==
  IF i > Len(expressions) THEN <<>>
  ELSE IF expressions[i].expression \in seen
       THEN DeduplicateFrom(expressions, i + 1, seen)
       ELSE <<expressions[i]>>
              \o DeduplicateFrom(expressions, i + 1, seen \cup {expressions[i].expression})

\* _deduplicate(expressions)
_deduplicate(expressions) == DeduplicateFrom(expressions, 1, {})

\* the passes in another order: the process pass ahead of the others
IntentCandidatesProcessFirst(text, fields) ==
  _collect_process_expressions(text, fields)
    \o (IF Contains(Lower(text), "port") THEN _collect_port_expressions(text, fields) ELSE <<>>)
    \o _collect_hash_expressions(text, fields)
    \o _collect_ip_expressions(text, fields)
    \o _collect_domain_expressions(text, fields)
    \o _collect_username_expressions(text, fields)
    \o _collect_path_expressions(text, fields)
    \o _collect_cmdline_expressions(text, fields)

\* the candidates _expressions_from_intent collects, pass after pass
IntentCandidates(text, fields) ==
  (IF Contains(Lower(text), "port") THEN _collect_port_expressions(text, fields) ELSE <<>>)
    \o _collect_hash_expressions(text, fields)
    \o _collect_ip_expressions(text, fields)
    \o _collect_domain_expressions(text, fields)
    \o _collect_username_expressions(text, fields)
    \o _collect_process_expressions(text, fields)
    \o _collect_path_expressions(text, fields)
    \o _collect_cmdline_expressions(text, fields)

\* _expressions_from_intent(text, fields): the deduplicated pairs (the code
\* returns them as two parallel lists)
_expressions_from_intent(text, fields) == _deduplicate(IntentCandidates(text, fields))

(***************************************************************************)
(* s1/query_builder.py: build_s1_query.                                    *)
(***************************************************************************)
RECURSIVE FirstFailure(_, _)
\* the index of the first result that raised, 0 if none did
FirstFailure(results, i) ==
  IF i > Len(results) THEN 0
  ELSE IF ~results[i].ok THEN i
  ELSE FirstFailure(results, i + 1)

\* a test of the free text that takes a blank text for a text
HasIntentUnstripped(intent) == Truthy(intent)

\* has_valid_intent = natural_language_intent and natural_language_intent.strip()
has_valid_intent(intent) == Truthy(intent) /\ Strip(intent.v) # ""

\* has_valid_filters = filters and len(filters) > 0
has_valid_filters(filters) == Truthy(filters) /\ Len(filters.v) > 0

\* has_explicit_dataset = dataset is not None and dataset.strip()
has_explicit_dataset(dataset) == dataset # None /\ Strip(dataset.v) # ""

\* a lookup that finds no event-type filter for any dataset
NoEventFilter(dataset_key) == FALSE

\* dataset_key in _DATASET_EVENT_FILTERS
HasEventFilter(dataset_key) ==
  dataset_key # None /\ dataset_key.v \in DOMAIN _DATASET_EVENT_FILTERS

\* build_s1_query's test that the dataset was inferred from the intent
InferredFromIntent(intent, dataset_key) ==
  LET IsKey(k) == Str(k) = dataset_key
  IN /\ Truthy(intent)
     /\ dataset_key # None
     /\ FirstKeyword(_DATASET_KEYWORDS, Lower(intent.v), IsKey) # None

\* the implicit event-type filter of a dataset: <<>> if it has none, else
\* the one [expression, meta] pair that is inserted at position 0
EventFilter(dataset_key) ==
  IF HasEventFilter(dataset_key)
  THEN LET event_types == _DATASET_EVENT_FILTERS[dataset_key.v]
       IN << Pair("meta.event.name in ("
                    \o Join([k \in 1..Len(event_types) |-> _quote(event_types[k])], ", ")
                    \o ")",
                  [type |-> "event_filter", dataset |-> dataset_key.v,
                   events |-> event_types]) >>
  ELSE <<>>

\* a join that wraps every OR query, a single expression included
CombineWrappingEveryOr(expressions, operator) ==
  LET combined == Join(expressions, " " \o operator \o " ")
  IN IF Len(expressions) = 0 THEN ""
     ELSE IF operator = "OR" THEN "(" \o combined \o ")"
     ELSE combined

\* the join of build_s1_query: parentheses only for OR over several
CombineExpressions(expressions, operator) ==
  LET combined == Join(expressions, " " \o operator \o " ")
  IN IF Len(expressions) = 0 THEN ""
     ELSE IF operator = "OR" /\ Len(expressions) > 1 THEN "(" \o combined \o ")"
     ELSE combined

\* the metadata record build_s1_query returns
S1Metadata(schema, dataset_key, operator, expression_details) ==
  LET dataset_meta == DatasetMeta(schema, dataset_key.v)
  IN [dataset |-> dataset_key,
      dataset_display_name |->
        IF dataset_key # None /\ dataset_meta.name.t = "str" THEN dataset_meta.name ELSE None,
      boolean_operator |-> operator,
      inferred_conditions |-> expression_details,
      dataset_metadata |-> IF dataset_key # None THEN dataset_meta.metadata ELSE Absent]

\* what build_s1_query returns for the [expression, meta] pairs it collected
S1Result(schema, dataset_key, operator, pairs) ==
  Bind([i \in 1..Len(pairs) |-> pairs[i].expression], LAMBDA expressions :
    [ok |-> TRUE,
     query |-> CombineExpressions(expressions, operator),
     metadata |-> S1Metadata(schema, dataset_key, operator,
                             [i \in 1..Len(pairs) |-> pairs[i].meta]),
     expressions |-> expressions])

\* build_s1_query once every filter is built: collected holds the pairs of
\* the filters and of the free text
S1Collected(schema, dataset, filters, intent, operator, dataset_key, collected) ==
  IF ~has_valid_filters(filters) /\ ~has_valid_intent(intent)
  THEN Raise("ValueError", "Must provide either natural_language_intent, filters, or both")
  ELSE IF /\ has_valid_intent(intent)
          /\ Len(collected) = 0
          /\ ~has_valid_filters(filters)
          /\ ~(\/ has_explicit_dataset(dataset)
               \/ InferredFromIntent(intent, dataset_key)
               \/ HasEventFilter(dataset_key))
  THEN Raise("ValueError", "No valid expressions could be generated from the provided intent")
  ELSE S1Result(schema, dataset_key, operator, EventFilter(dataset_key) \o collected)

\* build_s1_query from the loop over the filters on: built holds what
\* _build_filter_expression returned or raised for each filter
S1Built(schema, dataset, filters, intent, operator, dataset_key, fields, built) ==
  IF FirstFailure(built, 1) > 0
  THEN built[FirstFailure(built, 1)]
  ELSE S1Collected(schema, dataset, filters, intent, operator, dataset_key,
                   [i \in 1..Len(built) |-> Pair(built[i].expression, built[i].meta)]
                     \o (IF Truthy(intent)
                         THEN _expressions_from_intent(intent.v, fields)
                         ELSE <<>>))

\* every filter of the list through _build_filter_expression
BuiltFilters(items, fields, operator_map) ==
  [i \in 1..Len(items) |-> _build_filter_expression(items[i], fields, operator_map)]

\* build_s1_query(schema, dataset, filters, natural_language_intent,
\* boolean_operator).  On success the record also carries the local list
\* `expressions` the query was joined from.
build_s1_query(schema, dataset, filters, intent, boolean_operator) ==
  Bind(UpperCase(Strip(boolean_operator)), LAMBDA operator :
    IF operator \notin {"AND", "OR"}
    THEN Raise("ValueError", "boolean_operator must be 'AND' or 'OR'")
    ELSE
      Bind(infer_dataset(dataset, intent, schema), LAMBDA dataset_key :
      Bind(s1_collect_fields(schema, dataset_key), LAMBDA fields :
        S1Built(schema, dataset, filters, intent, operator, dataset_key, fields,
                BuiltFilters(IF Truthy(filters) THEN filters.v ELSE <<>>,
                             fields, _build_operator_map(schema))))))

(***************************************************************************)
(* The schema snapshots the calls are made against.                        *)
(***************************************************************************)
String == [data_type |-> "String"]

Numeric == [data_type |-> "Numeric"]

S1Operators ==
  << [name |-> "Equals", symbols |-> <<"=">>],
     [name |-> "Not Equals", symbols |-> <<"!=", "<>">>],
     [name |-> "Contains Anycase", symbols |-> <<"contains:anycase">>],
     [name |-> "In", symbols |-> <<"in", "in:anycase">>] >>

S1OperatorVariants == << <<"matches", "in:matchcase">>, <<"contains">> >>

ProcessFields ==
  [f \in {"tgt.process.displayName", "tgt.process.cmdline", "tgt.file.path",
          "tgt.file.md5", "dst.port.number", "dst.ip.address", "src.process.user"} |->
     IF f = "dst.port.number" THEN Numeric ELSE String]

NetworkFields ==
  [f \in {"dst.ip.address", "src.port.number", "network.http.host",
          "src.process.user"} |->
     IF f = "src.port.number" THEN [data_type |-> "integer"] ELSE String]

CommonFields == [f \in {"endpoint.name", "src.process.user"} |-> String]

S1Schemas ==
  [edr |->
     [datasets |-> << [key |-> "network_actions", name |-> Str("Network Actions"),
                       fields |-> NetworkFields, metadata |-> [category |-> "ndr"]],
                      [key |-> "processes", name |-> Str("Process Creation"),
                       fields |-> ProcessFields, metadata |-> [category |-> "edr"]] >>,
      common_fields |-> CommonFields,
      operators |-> S1Operators,
      operator_variants |-> S1OperatorVariants],
   network |->
     [datasets |-> << [key |-> "network_actions", name |-> None,
                       fields |-> NetworkFields, metadata |-> [category |-> "ndr"]],
                      [key |-> "dns", name |-> Str("DNS"),
                       fields |-> [f \in {"dns.request.domain"} |-> String],
                       metadata |-> [category |-> "ndr"]] >>,
      common_fields |-> CommonFields,
      operators |-> S1Operators,
      operator_variants |-> S1OperatorVariants],
   empty |->
     [datasets |-> <<>>,
      common_fields |-> CommonFields,
      operators |-> S1Operators,
      operator_variants |-> S1OperatorVariants]]

(***************************************************************************)
(* The calls of build_s1_query that are checked: every schema snapshot,    *)
(* requested dataset and boolean operator below, with a list of filters    *)
(* and a free text of phrases that together hold at most MaxParts parts.   *)
(***************************************************************************)
MaxParts == 2

S1SchemaNames == {"edr", "network", "empty"}

S1DatasetArgs == {None, Str("processes"), Str("bogus")}

S1BooleanOperators == {"AND", " or ", "XOR"}

S1FilterPool ==
  { Str("endpoint.name = 'a;b'"),
    Str(" x = \"1\"\ry = 2 "),
    Dict(Str("dst.port.number"), Str("=="), Str("4444")),
    Dict(Str("tgt.process.displayName"), Str("~="), Str("it's")),
    Dict(Str("src.process.user"), Absent, List(<<Str("bob"), IntV(7)>>)) }

S1Phrases ==
  { "find cmd.exe with port 4444",
    "hello world",
    "user is bob at 10.0.0.5 dns domain evil.com",
    "'net use;x' C:\\Temp\\a.exe",
    "d41d8cd98f00b204e9800998ecf8427e" }

\* the filters arguments with n filters: None and [] are both "no filters"
S1FiltersOf(n) ==
  (IF n = 0 THEN {None} ELSE {}) \cup {List(q) : q \in [1..n -> S1FilterPool]}

\* the free texts of n phrases: None, "" and blanks are all "no free text"
S1IntentsOf(n) ==
  (IF n = 0 THEN {None, Str("   ")} ELSE {})
    \cup {Str(Join(q, " ")) : q \in [1..n -> S1Phrases]}

Idle == [t |-> "idle"]

\* env holds what outlives a call: module-level state, objects' fields and
\* files.  The builders and resolvers have none.
NoEnv == [t |-> "none"]

InitS1 ==
  /\ pc = "call"
  /\ \E nf \in 0..MaxParts :
       \E np \in 0..(MaxParts - nf) :
         args \in [fn : {"build_s1_query"},
                   schema : S1SchemaNames,
                   dataset : S1DatasetArgs,
                   filters : S1FiltersOf(nf),
                   natural_language_intent : S1IntentsOf(np),
                   boolean_operator : S1BooleanOperators]
  /\ ret = Idle
  /\ env = NoEnv

\* one call of build_s1_query, start to finish
BuildS1Query ==
  /\ pc = "call"
  /\ args.fn = "build_s1_query"
  /\ ret' = build_s1_query(S1Schemas[args.schema], args.dataset, args.filters,
                           args.natural_language_intent, args.boolean_operator)
  /\ pc' = "done"
  /\ UNCHANGED <<args, env>>

NextS1 == BuildS1Query

SpecS1 == InitS1 /\ [][NextS1]_vars

(***************************************************************************)
(* Properties of build_s1_query, stated on the finished call: its          *)
(* arguments are in args, what it returned or raised is in ret.            *)
(***************************************************************************)
S1Done == pc = "done" /\ args.fn = "build_s1_query"

S1Returned == S1Done /\ ret.ok

S1Items == IF args.filters.t = "list" THEN args.filters.v ELSE <<>>

S1Schema == S1Schemas[args.schema]

S1Operator == UpperCase(Strip(args.boolean_operator))

\* the dataset the call resolves, and its field map
S1Resolved == infer_dataset(args.dataset, args.natural_language_intent, S1Schema)

S1FieldMap == s1_collect_fields(S1Schema, S1Resolved)

S1OperatorMap == _build_operator_map(S1Schema)

\* 1 if the dataset declares an implicit event-type filter, else 0
EventCount(dataset_key) ==
  IF dataset_key # None /\ dataset_key.v \in DOMAIN _DATASET_EVENT_FILTERS THEN 1 ELSE 0

NoFilters == args.filters = None \/ args.filters = List(<<>>)

NoFreeText ==
  \/ args.natural_language_intent = None
  \/ Strip(args.natural_language_intent.v) = ""

\* Where a condition of metadata.inferred_conditions comes from: 0 the
\* event-type filter, 1 a caller's filter, 2.. the extraction passes.
PassRank(meta) ==
  IF "type" \notin DOMAIN meta THEN 1
  ELSE CASE meta.type = "event_filter" -> 0
         [] meta.type = "port" -> 2
         [] meta.type \in {"sha256", "sha1", "md5"} -> 3
         [] meta.type \in {"ipv4", "ipv6"} -> 4
         [] meta.type = "domain" -> 5
         [] meta.type = "username" -> 6
         [] meta.type = "process_name" -> 7
         [] meta.type = "path" -> 8
         [] meta.type = "cmdline" -> 9

C1Example ==
  (/\ args.schema = "edr"
   /\ args.dataset = Str("processes")
   /\ NoFilters
   /\ args.natural_language_intent = Str("find cmd.exe with port 4444")
   /\ args.boolean_operator = "AND")
  => /\ ret.ok
     /\ ret.query = "meta.event.name in ('PROCESSCREATION') AND "
                      \o "dst.port.number = 4444 AND "
                      \o "tgt.process.displayName in:anycase ('cmd.exe')"

\* C1: the query of build_s1_query joins the expressions in this order: the
\* resolved dataset's implicit event-type filter first (exactly when the
\* dataset declares one), then the caller's filters in call order, then the
\* expressions extracted from the free text in pass order port, hash, IP,
\* domain, username, process, path, command line; and for dataset
\* 'processes', text 'find cmd.exe with port 4444', no filters and AND the
\* query is exactly the event filter, the port filter and the process filter.
C1_ExpressionOrder ==
  S1Done =>
    /\ C1Example
    /\ ret.ok =>
         LET conds == ret.metadata.inferred_conditions
             ranks == [i \in 1..Len(conds) |-> PassRank(conds[i])]
             joined == Join(ret.expressions, " " \o S1Operator \o " ")
             ev == EventCount(S1Resolved)
             items == S1Items
             fields == S1FieldMap
             operator_map == S1OperatorMap
         IN /\ ret.query \in {joined, "(" \o joined \o ")"}
            /\ Len(conds) = Len(ret.expressions)
            /\ Len(conds) >= ev + Len(items)
            /\ \A i \in 1..Len(conds) :
                 /\ (ranks[i] = 0) <=> (ev = 1 /\ i = 1)
                 /\ ranks[i] = 0 => StartsWith(ret.expressions[i], "meta.event.name in (")
                 /\ ranks[i] >= 2 => StartsWith(ret.expressions[i], conds[i].field \o " ")
            /\ \A i \in 1..Len(items) :
                 /\ ranks[ev + i] = 1
                 /\ ret.expressions[ev + i]
                      = _build_filter_expression(items[i], fields, operator_map).expression
            /\ \A i \in 1..(Len(conds) - 1) : ranks[i] <= ranks[i + 1]

\* a returned query of four expressions: the event filter, one caller's
\* filter, the port filter and the process filter, in that order
C1_Witness ==
  /\ S1Returned
  /\ Len(ret.metadata.inferred_conditions) = 4
  /\ [i \in 1..4 |-> PassRank(ret.metadata.inferred_conditions[i])] = <<0, 1, 2, 7>>

\* C2: the joined expression is wrapped in parentheses exactly when the
\* operator is OR and more than one expression is present; a single
\* expression is the query itself whatever the operator.
C2_ParenthesesOnlyForSeveralOr ==
  S1Returned =>
    LET operator == S1Operator
        joined == Join(ret.expressions, " " \o operator \o " ")
    IN /\ (operator = "OR" /\ Len(ret.expressions) > 1)
            => ret.query = "(" \o joined \o ")"
       /\ (operator = "AND" /\ Len(ret.expressions) > 1) => ret.query = joined
       /\ Len(ret.expressions) = 1 => ret.query = ret.expressions[1]

\* two expressions combined with OR, parenthesized
C2_Witness ==
  /\ S1Returned
  /\ S1Operator = "OR"
  /\ Len(ret.expressions) = 2
  /\ ret.query = "(" \o ret.expressions[1] \o " OR " \o ret.expressions[2] \o ")"

\* C4: with no filters (None or an empty list) and no free text (None,
\* empty or blank) build_s1_query always raises and returns no query,
\* whatever the dataset and the schema; under a valid boolean operator the
\* error is the one for insufficient input.
C4_NoInputFails ==
  (S1Done /\ NoFilters /\ NoFreeText) =>
    /\ ~ret.ok
    /\ S1Operator \in {"AND", "OR"} =>
         /\ ret.exc = "ValueError"
         /\ ret.msg = "Must provide either natural_language_intent, filters, or both"

\* an empty filter list and a blank text, with an explicit dataset
C4_Witness ==
  /\ S1Done
  /\ args.filters = List(<<>>)
  /\ args.natural_language_intent = Str("   ")
  /\ args.dataset = Str("processes")
  /\ ~ret.ok
  /\ ret.msg = "Must provide either natural_language_intent, filters, or both"

\* no keyword of _DATASET_KEYWORDS occurs in the free text
NoDatasetKeyword ==
  LET lowered == Lower(args.natural_language_intent.v)
  IN \A k \in 1..Len(_DATASET_KEYWORDS) : ~Contains(lowered, _DATASET_KEYWORDS[k][1])

\* The case of C5: a valid boolean operator, no filters, no explicit
\* dataset, and a free text that extracts nothing and names no dataset.
C5Case ==
  /\ S1Done
  /\ NoFilters
  /\ args.dataset = None \/ Strip(args.dataset.v) = ""
  /\ S1Operator \in {"AND", "OR"}
  /\ ~NoFreeText
  /\ NoDatasetKeyword
  /\ Len(_expressions_from_intent(args.natural_language_intent.v, S1FieldMap)) = 0

\* C5 as stated: in that case the call fails with the insufficient-input
\* error, for every schema.
C5_FailsForEverySchema ==
  C5Case =>
    /\ ~ret.ok
    /\ ret.msg = "No valid expressions could be generated from the provided intent"

\* C5, amended: in that case the call fails with the insufficient-input
\* error exactly when the dataset it falls back to declares no implicit
\* event-type filter; when the dataset declares one the call succeeds and
\* the query is that event-type filter alone.
C5_FailsUnlessEventFilter ==
  C5Case =>
    LET dataset_key == S1Resolved
    IN IF EventCount(dataset_key) = 0
       THEN /\ ~ret.ok
            /\ ret.exc = "ValueError"
            /\ ret.msg = "No valid expressions could be generated from the provided intent"
       ELSE /\ ret.ok
            /\ Len(ret.metadata.inferred_conditions) = 1
            /\ ret.metadata.inferred_conditions[1].type = "event_filter"
            /\ ret.metadata.inferred_conditions[1].dataset = dataset_key.v
            /\ StartsWith(ret.query, "meta.event.name in (")

\* 'hello world' against a schema whose default dataset is 'processes'
C5_Witness ==
  /\ C5Case
  /\ args.natural_language_intent = Str("hello world")
  /\ ret.ok
  /\ ret.query = "meta.event.name in ('PROCESSCREATION')"

\* the structured filters among items that name a field outside fields
UnknownFieldFilters(items, fields) ==
  {i \in 1..Len(items) :
     /\ items[i].t = "dict"
     /\ items[i].field.t = "str"
     /\ items[i].field.v \notin DOMAIN fields}

\* C7: build_s1_query raises, returning no query, whenever a structured
\* filter names a field that is absent from the resolved dataset's field map
\* (the common fields merged with the dataset's own); and every condition of
\* a returned metadata.inferred_conditions that names a field names one of
\* that map.
C7_FieldsComeFromFieldMap ==
  S1Done =>
    LET fields == S1FieldMap
    IN /\ UnknownFieldFilters(S1Items, fields) # {} => ~ret.ok
       /\ ret.ok =>
            \A i \in 1..Len(ret.metadata.inferred_conditions) :
              "field" \in DOMAIN ret.metadata.inferred_conditions[i] =>
                ret.metadata.inferred_conditions[i].field \in DOMAIN fields

\* a call refused for its structured filter on dst.port.number, a field of
\* another dataset
C7_Witness ==
  /\ S1Done
  /\ UnknownFieldFilters(S1Items, S1FieldMap) # {}
  /\ ~ret.ok
  /\ ret.msg = "Field 'dst.port.number' is not present in the selected dataset"

\* the operator a structured filter asks for ("=" when it gives none)
GivenOperator(item) == IF item.operator = Absent THEN "=" ELSE item.operator.v

\* the structured filters among items whose operator _normalize_operator
\* refuses
UnnormalizableFilters(items, operator_map) ==
  {i \in 1..Len(items) :
     /\ items[i].t = "dict"
     /\ ~_normalize_operator(GivenOperator(items[i]), operator_map).ok}

\* the canonical operators of the operator table
OperatorTableValues(operator_map) == {operator_map[k] : k \in DOMAIN operator_map}

\* C8 as stated: a structured filter whose operator cannot be normalized
\* fails the call, and every operator a returned query renders for a
\* structured filter is a value of the operator table.
C8_UnknownOperatorFails ==
  S1Done =>
    LET operator_map == S1OperatorMap
        canonical == OperatorTableValues(operator_map)
    IN /\ UnnormalizableFilters(S1Items, operator_map) # {} => ~ret.ok
       /\ ret.ok =>
            \A i \in 1..Len(ret.metadata.inferred_conditions) :
              "operator" \in DOMAIN ret.metadata.inferred_conditions[i] =>
                ret.metadata.inferred_conditions[i].operator \in canonical

\* C8, amended: an operator that cannot be normalized never fails the call;
\* the structured filter is rendered with the caller's operator verbatim.
\* Every operator a returned query renders for a structured filter is the
\* operator table's value for it when it normalizes, and the caller's own
\* operator when it does not.
C8_UnknownOperatorVerbatim ==
  (S1Done /\ S1Items # <<>>) =>
    LET items == S1Items
        operator_map == S1OperatorMap
        canonical == OperatorTableValues(operator_map)
        unknown == UnnormalizableFilters(items, operator_map)
        ev == EventCount(S1Resolved)
    IN /\ \A i \in unknown : ret # _normalize_operator(GivenOperator(items[i]), operator_map)
       /\ ret.ok =>
            \A i \in 1..Len(items) :
              items[i].t = "dict" =>
                LET given == GivenOperator(items[i])
                    cond == ret.metadata.inferred_conditions[ev + i]
                IN /\ IF i \in unknown
                      THEN cond.operator = given
                      ELSE /\ cond.operator \in canonical
                           /\ cond.operator = _normalize_operator(given, operator_map).v
                   /\ StartsWith(ret.expressions[ev + i],
                                 items[i].field.v \o " " \o cond.operator \o " ")

\* a returned query that renders the operator ~= of its structured filter
C8_Witness ==
  /\ S1Returned
  /\ \E i \in UnnormalizableFilters(S1Items, S1OperatorMap) :
       /\ ret.metadata.inferred_conditions[EventCount(S1Resolved) + i].operator = "~="
       /\ StartsWith(ret.expressions[EventCount(S1Resolved) + i],
                     "tgt.process.displayName ~= ")

\* the control characters of the texts
ControlChars == {"\t", "\n", "\f", "\r"}

\* the raw filter strings of the call that hold ';', '|' or a control
\* character
UnsafeRawFilters ==
  {i \in 1..Len(S1Items) :
     /\ S1Items[i].t = "str"
     /\ CharsOf(S1Items[i].v) \cap ({";", "|"} \cup ControlChars) # {}}

\* C9 as stated: build_s1_query raises the unsafe-expression error for every
\* raw filter string that holds ';', '|' or a control character at any
\* position, so no such string reaches a returned query.
C9_UnsafeRawFilterFails ==
  (S1Done /\ UnsafeRawFilters # {}) => ~ret.ok

(***************************************************************************)
(* _quote on its own: every string over QuoteAlphabet of at most           *)
(* MaxQuoteLen characters, and the path of the documentation.              *)
(***************************************************************************)
MaxQuoteLen == 4

QuoteAlphabet == {"a", "\\", "'"}

RECURSIVE StringsOfLen(_, _)
StringsOfLen(alphabet, n) ==
  IF n = 0 THEN {""}
  ELSE {c \o rest : c \in alphabet, rest \in StringsOfLen(alphabet, n - 1)}

QuoteInputs ==
  UNION {StringsOfLen(QuoteAlphabet, n) : n \in 0..MaxQuoteLen}
    \cup {"C:\\Windows\\System32"}

InitQuote ==
  /\ pc = "call"
  /\ args \in [fn : {"_quote"}, value : QuoteInputs]
  /\ ret = Idle
  /\ env = NoEnv

\* one call of _quote
Quote ==
  /\ pc = "call"
  /\ args.fn = "_quote"
  /\ ret' = Return(_quote(args.value))
  /\ pc' = "done"
  /\ UNCHANGED <<args, env>>

NextQuote == Quote

SpecQuote == InitQuote /\ [][NextQuote]_vars

\* what one character of the value becomes inside the quotes
QuotedChar(c) ==
  IF c = "\\" THEN "\\\\" ELSE IF c = "'" THEN "\\'" ELSE c

\* how often the character c occurs in s
Occurrences(s, c) == Cardinality({i \in 1..Len(s) : Char(s, i) = c})

\* C10: _quote doubles every backslash of the value before it escapes the
\* single quotes, and wraps the result in single quotes: character by
\* character a backslash becomes two backslashes, a single quote becomes one
\* backslash and the quote, every other character stays; so the backslash
\* that escapes a quote is never doubled, and C:\Windows\System32 is rendered
\* with every backslash doubled.
C10_BackslashesDoubledBeforeQuotes ==
  (pc = "done" /\ args.fn = "_quote") =>
    /\ ret.v = "'" \o MapChars(QuotedChar, args.value) \o "'"
    /\ Occurrences(ret.v, "\\")
         = 2 * Occurrences(args.value, "\\") + Occurrences(args.value, "'")
    /\ Occurrences(ret.v, "'") = Occurrences(args.value, "'") + 2
    /\ args.value = "C:\\Windows\\System32" => ret.v = "'C:\\\\Windows\\\\System32'"

\* a backslash followed by a single quote: three backslashes come out, two
\* for the backslash and one for the quote
C10_Witness ==
  /\ pc = "done"
  /\ args.fn = "_quote"
  /\ args.value = "\\'"
  /\ ret.v = "'\\\\\\''"

(***************************************************************************)
(* cbc/schema_loader.py: normalise_search_type.                            *)
(***************************************************************************)
\* the alias table of normalise_search_type
candidates ==
  [process |-> "process_search",
   process_search |-> "process_search",
   binary |-> "binary_search",
   binary_search |-> "binary_search",
   alert |-> "alert_search",
   alert_search |-> "alert_search",
   alerts |-> "alert_search",
   threat |-> "threat_report_search",
   threat_report |-> "threat_report_search",
   threat_report_search |-> "threat_report_search",
   report |-> "threat_report_search"]

\* x in available_list
InList(x, list) == \E i \in 1..Len(list) : list[i] = x

\* a prefix fallback that never finds a key
NoPrefixMatch(available_list, resolved, i) == None

RECURSIVE FirstWithPrefix(_, _, _)
\* the loop `for candidate in available_list`: the first key from position
\* i on that starts with resolved, None if there is none
FirstWithPrefix(available_list, resolved, i) ==
  IF i > Len(available_list) THEN None
  ELSE IF StartsWith(available_list[i], resolved) THEN Str(available_list[i])
  ELSE FirstWithPrefix(available_list, resolved, i + 1)

\* normalise_search_type(name, available): the search type and the log
normalise_search_type(name, available_list) ==
  LET cleaned == Replace(Lower(Strip(name.v)), " ", "_")
      resolved == IF cleaned \in DOMAIN candidates THEN candidates[cleaned] ELSE cleaned
      by_prefix == FirstWithPrefix(available_list, resolved, 1)
  IN IF ~Truthy(name)
     THEN IF Len(available_list) > 0
          THEN [ok |-> TRUE, search_type |-> available_list[1],
                log |-> <<"defaulted_to:" \o available_list[1]>>]
          ELSE Raise("ValueError", "No search types available in schema")
     ELSE IF InList(resolved, available_list)
     THEN [ok |-> TRUE, search_type |-> resolved,
           log |-> IF resolved # name.v
                   THEN <<"normalised_from:" \o name.v \o "->" \o resolved>>
                   ELSE <<>>]
     ELSE IF by_prefix # None
     THEN [ok |-> TRUE, search_type |-> by_prefix.v,
           log |-> <<"prefix_matched:" \o by_prefix.v>>]
     ELSE Raise("ValueError",
                "Unknown search type '" \o name.v \o "'. Valid options: "
                  \o Join(available_list, ", "))

\* the requested names and the lists of available search types checked
SearchTypeNames ==
  {None, Str(""), Str("  "), Str("alerts"), Str("proc"), Str("bogus"),
   Str("Alert Search"), Str(" REPORT "), Str("binary_search"), Str("threat"),
   Str("process"), Str("BINARY")}

AvailableLists ==
  { <<>>,
    <<"process_search", "binary_search", "alert_search", "threat_report_search">>,
    <<"alert_search">>,
    <<"threat_report_search", "process_search">>,
    <<"binary_search">>,
    <<"process_tree_search", "process_search", "alert_search">> }

InitCbc ==
  /\ pc = "call"
  /\ args \in [fn : {"normalise_search_type"},
               name : SearchTypeNames,
               available : AvailableLists]
  /\ ret = Idle
  /\ env = NoEnv

\* one call of normalise_search_type
NormaliseSearchType ==
  /\ pc = "call"
  /\ args.fn = "normalise_search_type"
  /\ ret' = normalise_search_type(args.name, args.available)
  /\ pc' = "done"
  /\ UNCHANGED <<args, env>>

NextCbc == NormaliseSearchType

SpecCbc == InitCbc /\ [][NextCbc]_vars

CbcDone == pc = "done" /\ args.fn = "normalise_search_type"

\* the positions of the available keys that start with prefix
KeysWithPrefix(prefix) ==
  {i \in 1..Len(args.available) : StartsWith(args.available[i], prefix)}

\* C6: normalise_search_type resolves a name by alias table, then
\* membership, then prefix.  'alerts' gives 'alert_search' when that key is
\* available; an alias that is available wins over a prefix match; 'proc',
\* which is no alias and no key, gives the first available key that starts
\* with it, 'process_search' when that is the one; 'bogus', which is no
\* alias, no key and no prefix of a key, raises an error whose message lists
\* all the available keys.
C6_AliasThenMembershipThenPrefix ==
  CbcDone =>
    /\ ret.ok => InList(ret.search_type, args.available)
    /\ (args.name = Str("alerts") /\ InList("alert_search", args.available)) =>
         /\ ret.ok
         /\ ret.search_type = "alert_search"
         /\ ret.log = <<"normalised_from:alerts->alert_search">>
    /\ (args.name = Str("process") /\ InList("process_search", args.available)) =>
         ret.ok /\ ret.search_type = "process_search"
    /\ (args.name = Str("binary_search") /\ InList("binary_search", args.available)) =>
         ret.ok /\ ret.search_type = "binary_search" /\ ret.log = <<>>
    /\ (args.name = Str("proc") /\ KeysWithPrefix("proc") # {}) =>
         LET first == CHOOSE i \in KeysWithPrefix("proc") :
                        \A j \in KeysWithPrefix("proc") : i <= j
         IN /\ ret.ok
            /\ ret.search_type = args.available[first]
            /\ ret.log = <<"prefix_matched:" \o args.available[first]>>
            /\ KeysWithPrefix("proc") = {first} /\ args.available[first] = "process_search"
                 => ret.search_type = "process_search"
    /\ args.name = Str("bogus") =>
         /\ ~ret.ok
         /\ ret.exc = "ValueError"
         /\ ret.msg = "Unknown search type 'bogus'. Valid options: "
                        \o Join(args.available, ", ")
         /\ \A i \in 1..Len(args.available) : Contains(ret.msg, args.available[i])

\* 'proc' against the four search types: process_search, by its prefix
C6_Witness ==
  /\ CbcDone
  /\ args.name = Str("proc")
  /\ Len(args.available) = 4
  /\ ret.ok
  /\ ret.search_type = "process_search"
  /\ ret.log = <<"prefix_matched:process_search">>

(***************************************************************************)
(* cortex/query_builder.py: constants, tables and regular expressions.     *)
(***************************************************************************)
cortex_DEFAULT_DATASET == "xdr_data"

DEFAULT_LIMIT == 100

MAX_LIMIT == 10000

\* a dict with keys that are no identifiers: <<key, value>> pairs
_KNOWN_PROCESS_ALIASES ==
  << <<"powershell", "powershell.exe">>, <<"cmd", "cmd.exe">>,
     <<"command prompt", "cmd.exe">>, <<"wmic", "wmic.exe">>,
     <<"mshta", "mshta.exe">>, <<"cscript", "cscript.exe">>,
     <<"wscript", "wscript.exe">> >>

_HOST_KEYWORDS == {"host", "hostname", "agent", "endpoint", "machine", "server"}

\* _MD5_RE = \b[a-fA-F0-9]{32}\b
_MD5_RE(s, i) == HexRunMatch(s, i, 32)

\* _SHA256_RE = \b[a-fA-F0-9]{64}\b
_SHA256_RE(s, i) == HexRunMatch(s, i, 64)

\* _IPV4_RE = \b(?:\d{1,3}\.){3}\d{1,3}\b
_IPV4_RE(s, i) == s1_IPV4_RE(s, i)

\* [A-Za-z0-9_\-]
CortexProcessChars == WordChars \cup {"-"}

\* the match of _PROCESS_RE at i whose name ends before r
ExeNameTo(s, i, r) ==
  IF AtBoundary(s, i) /\ r > i /\ LowerAt(s, r, ".exe") /\ AtBoundary(s, r + 4)
  THEN Matched(r + 4, SubSeq(s, i, r + 3))
  ELSE NoMatch

\* _PROCESS_RE = \b([A-Za-z0-9_\-]+\.exe)\b (IGNORECASE)
_PROCESS_RE(s, i) == ExeNameTo(s, i, RunEnd(s, i, CortexProcessChars))

\* [\\/:\n], the characters no segment of a drive or UNC path holds
WinStopChars == {"\\", "/", ":", "\n"}

\* [/\s], the characters no segment of a slash path holds
UnixStopChars == Whitespace \cup {"/"}

RECURSIVE WinSegments(_, _)
\* (?:[^\\/:\n]+\\\\)*[^\\/:\n]+ at p: one more segment closed by two
\* backslashes is tried first, the last segment when that leads nowhere;
\* the position after the match, 0 if there is none
WinSegments(s, p) ==
  Bind(RunEndNot(s, p, WinStopChars), LAMBDA r :
    IF r = p THEN 0
    ELSE FirstPositive(IF StartsWithAt(s, r, "\\\\") THEN WinSegments(s, r + 2) ELSE 0,
                       r))

RECURSIVE UnixSegments(_, _)
\* (?:[^/\s]+/)*[^/\s]+ at p, likewise
UnixSegments(s, p) ==
  Bind(RunEndNot(s, p, UnixStopChars), LAMBDA r :
    IF r = p THEN 0
    ELSE FirstPositive(IF StartsWithAt(s, r, "/") THEN UnixSegments(s, r + 1) ELSE 0,
                       r))

RECURSIVE FirstSegments(_, _, _)
\* the optional backslashes of the prefix, greedy: the segments are tried
\* after the most backslashes first
FirstSegments(s, p, optional) ==
  FirstPositive(IF optional > 0 /\ StartsWithAt(s, p, "\\")
                THEN FirstSegments(s, p + 1, optional - 1)
                ELSE 0,
                WinSegments(s, p))

\* _FILE_PATH_RE =
\*   ((?:[A-Za-z]:\\\\?|\\\\)\\?(?:[^\\/:\n]+\\\\)*[^\\/:\n]+|/(?:[^/\s]+/)*[^/\s]+)
cortex_FILE_PATH_RE(s, i) ==
  MatchTo(s, i,
          IF i + 2 <= Len(s) /\ Char(s, i) \in Letters /\ StartsWithAt(s, i + 1, ":\\")
          THEN FirstSegments(s, i + 3, 2)
          ELSE IF StartsWithAt(s, i, "\\\\")
          THEN FirstSegments(s, i + 2, 1)
          ELSE IF StartsWithAt(s, i, "/")
          THEN UnixSegments(s, i + 1)
          ELSE 0)

TimeUnits == <<"minute", "hour", "day", "week", "month">>

\* the unit, then s? at e: the unit and the position after the match
UnitThenPlural(s, e, unit) ==
  Matched(IF LowerAt(s, e, "s") THEN e + 1 ELSE e, unit)

\* (minute|hour|day|week|month)s? at p: the unit and the position after it
UnitAt(s, p) ==
  Bind(MinOrZero({k \in 1..Len(TimeUnits) : LowerAt(s, p, TimeUnits[k])}), LAMBDA k :
    IF k = 0 THEN NoMatch
    ELSE UnitThenPlural(s, p + Len(TimeUnits[k]), TimeUnits[k]))

\* the match of _TIME_RANGE_RE whose quantity is s[w..d-1], counted the match
\* of the unit after it; without a quantity the unit is looked for at w
CountedOrBare(s, w, d, counted) ==
  IF counted.e > 0
  THEN Matched(counted.e, <<Str(SubSeq(s, w, d - 1)), counted.g>>)
  ELSE Bind(UnitAt(s, w), LAMBDA bare :
         IF bare.e > 0 THEN Matched(bare.e, <<None, bare.g>>) ELSE NoMatch)

\* (?:(\d+)\s+)? at w, d the end of the digits at w: the position after it,
\* 0 if the group does not match
QuantityEnd(s, w, d) ==
  IF d > w /\ RunEnd(s, d, Whitespace) > d THEN RunEnd(s, d, Whitespace) ELSE 0

\* (?:(\d+)\s+)?(minute|hour|day|week|month)s? at w, d the end of the digits
\* at w, q the end of the quantity group
QuantityThenUnit(s, w, d, q) ==
  CountedOrBare(s, w, d, IF q > 0 THEN UnitAt(s, q) ELSE NoMatch)

\* the rest of _TIME_RANGE_RE after the keyword: \s+ up to w
AfterLast(s, i, w) ==
  IF w > i + 4
  THEN QuantityThenUnit(s, w, RunEnd(s, w, Digits),
                        QuantityEnd(s, w, RunEnd(s, w, Digits)))
  ELSE NoMatch

\* _TIME_RANGE_RE = (?:last|past)\s+(?:(\d+)\s+)?(minute|hour|day|week|month)s?
\* (IGNORECASE); g is <<group(1) or None, group(2)>>
_TIME_RANGE_RE(s, i) ==
  IF LowerAt(s, i, "last") \/ LowerAt(s, i, "past")
  THEN AfterLast(s, i, RunEnd(s, i + 4, Whitespace))
  ELSE NoMatch

\* [A-Za-z0-9_.-]
HostChars == WordChars \cup {".", "-"}

\* ([A-Za-z0-9_.-]{2,})['\"]? where the run from a ends before b
HostTokenTo(s, a, b) ==
  IF b - a >= 2 THEN Matched(SkipQuote(s, b), SubSeq(s, a, b - 1)) ELSE NoMatch

\* ([A-Za-z0-9_.-]{2,})['\"]? at a
HostTokenFrom(s, a) == HostTokenTo(s, a, RunEnd(s, a, HostChars))

\* ['\"]?([A-Za-z0-9_.-]{2,})['\"]? at p
HostToken(s, p) == HostTokenFrom(s, SkipQuote(s, p))

\* m if it is a match, else the token at w
MatchOrToken(m, s, w) == IF m.e > 0 THEN m ELSE HostToken(s, w)

\* (?:named\s+)?['\"]?([A-Za-z0-9_.-]{2,})['\"]? at w, n the end of the
\* blanks five characters on: "named" is taken first, and left to the name
\* when nothing follows it
NamedOrToken(s, w, n) ==
  MatchOrToken(IF LowerAt(s, w, "named") /\ n > w + 5 THEN HostToken(s, n) ELSE NoMatch,
               s, w)

\* the rest of _HOST_PHRASE_RE after the keyword at p: \s+ up to w
HostAfterBlanks(s, p, w) ==
  IF w = p THEN NoMatch ELSE NamedOrToken(s, w, RunEnd(s, w + 5, Whitespace))

\* \s+(?:named\s+)?['\"]?([A-Za-z0-9_.-]{2,})['\"]? at p
HostAfterKeyword(s, p) == HostAfterBlanks(s, p, RunEnd(s, p, Whitespace))

RECURSIVE HostKeywordAt(_, _, _)
\* the alternatives (?:host|hostname|server|agent) in order, each kept only
\* if the rest then matches
HostKeywordAt(s, i, keywords) ==
  IF Len(keywords) = 0 THEN NoMatch
  ELSE Bind(IF LowerAt(s, i, Head(keywords))
            THEN HostAfterKeyword(s, i + Len(Head(keywords)))
            ELSE NoMatch, LAMBDA m :
         IF m.e > 0 THEN m ELSE HostKeywordAt(s, i, Tail(keywords)))

\* _HOST_PHRASE_RE =
\*   (?:host|hostname|server|agent)\s+(?:named\s+)?['\"]?([A-Za-z0-9_.-]{2,})['\"]?
\* (IGNORECASE)
_HOST_PHRASE_RE(s, i) == HostKeywordAt(s, i, <<"host", "hostname", "server", "agent">>)

(***************************************************************************)
(* cortex/query_builder.py: values, filters and what is read from text.    *)
(* A field map is a dict in insertion order: a sequence of                 *)
(* [name, default_field] entries.                                          *)
(***************************************************************************)
\* _collect_fields(field_map): the keys, in order
cortex_collect_fields(field_map) == [i \in 1..Len(field_map) |-> field_map[i].name]

\* name in field_map
InFieldMap(name, field_map) == \E i \in 1..Len(field_map) : field_map[i].name = name

\* a resolver that walks the available fields and takes the first one that
\* is a candidate
FirstAvailableCandidate(preferred, available_fields) ==
  Bind(MinOrZero({i \in 1..Len(available_fields) : InList(available_fields[i], preferred)}),
       LAMBDA i : IF i = 0 THEN None ELSE Str(available_fields[i]))

\* _field_if_available(candidates, available_fields)
_field_if_available(preferred, available_fields) ==
  Bind(MinOrZero({i \in 1..Len(preferred) : InList(preferred[i], available_fields)}),
       LAMBDA i : IF i = 0 THEN None ELSE Str(preferred[i]))

\* str.endswith(suffix)
EndsWith(s, suffix) ==
  Len(s) >= Len(suffix) /\ SubSeq(s, Len(s) - Len(suffix) + 1, Len(s)) = suffix

\* _format_literal(value)
_format_literal(value) ==
  IF StartsWith(value, "'") /\ EndsWith(value, "'") THEN value
  ELSE "'" \o Replace(value, "'", "\\'") \o "'"

\* how repr() writes one character inside single or double quotes
ReprChar(c, quote) ==
  CASE c = "\\" -> "\\\\"
    [] c = "\n" -> "\\n"
    [] c = "\r" -> "\\r"
    [] c = "\t" -> "\\t"
    [] c = "\f" -> "\\x0c"
    [] c = quote -> "\\" \o c
    [] OTHER -> c

\* repr(value) of a str written between the given quotes
ReprIn(s, quote) == quote \o MapChars(LAMBDA c : ReprChar(c, quote), s) \o quote

\* repr(value) of a str: double quotes when it holds a single quote and no
\* double quote, single quotes otherwise
ReprStr(s) ==
  ReprIn(s, IF Contains(s, "'") /\ ~Contains(s, "\"") THEN "\"" ELSE "'")

\* repr(value) of a list item
Repr(value) == IF value.t = "str" THEN ReprStr(value.v) ELSE PyStr(value)

\* str(value), lists of scalars included
CortexStr(value) ==
  IF value.t = "list"
  THEN "[" \o Join([i \in 1..Len(value.v) |-> Repr(value.v[i])], ", ") \o "]"
  ELSE PyStr(value)

\* _format_value(value) for a str, trimmed its value stripped
FormatTrimmed(trimmed) ==
  IF trimmed = "" THEN "''"
  ELSE IF StartsWith(trimmed, "ENUM.") THEN trimmed
  ELSE IF StartsWith(trimmed, "interval ") THEN trimmed
  ELSE IF Contains(trimmed, "(") \/ EndsWith(trimmed, "()")
          \/ Contains(trimmed, "current_time()")
  THEN trimmed
  ELSE IF Head(trimmed) \in {"'", "\""} /\ EndsWith(trimmed, Head(trimmed))
  THEN IF Head(trimmed) = "\""
       THEN "'" \o Replace(SubSeq(trimmed, 2, Len(trimmed) - 1), "'", "\\'") \o "'"
       ELSE trimmed
  ELSE _format_literal(trimmed)

\* _format_value(value) when value is a str
FormatText(text) == FormatTrimmed(Strip(text))

\* _format_value(value): bool is an int to isinstance, so the first branch
\* takes it
cortex_format_value(value) ==
  CASE value.t \in {"int", "bool"} -> PyStr(value)
    [] value.t = "none" -> "null"
    [] value.t = "str" -> FormatText(value.v)
    [] OTHER -> _format_literal(CortexStr(value))

\* _format_filter(field, operator, value) for the stripped operator
FormatWith(field, op, value) ==
  IF Lower(op) = "in" /\ value.t = "list"
  THEN field \o " in ("
         \o Join([i \in 1..Len(value.v) |-> cortex_format_value(value.v[i])], ", ")
         \o ")"
  ELSE field \o " " \o op \o " " \o cortex_format_value(value)

\* _format_filter(field, operator, value), operator a str
_format_filter(field, operator, value) == FormatWith(field, Strip(operator), value)

\* one found filter: the expression, the span of the text it came from
\* (first position, position after the last) and its metadata entry
Found(expression, match, meta) ==
  [expression |-> expression, span |-> <<match.start, match.end>>, meta |-> meta]

\* the filter _extract_time_filters makes of a match, of the given quantity
\* and unit
TimeFilter(match, quantity, unit) ==
  Found("_time > current_time() - interval '" \o quantity \o " " \o unit \o "'",
        match,
        [type |-> "time_range", value |-> "last " \o quantity \o " " \o unit])

\* the filters _extract_time_filters makes of the matches of _TIME_RANGE_RE
TimeFilters(matches) ==
  [k \in 1..Len(matches) |->
     TimeFilter(matches[k],
                IF Truthy(matches[k].g[1]) THEN matches[k].g[1].v ELSE "1",
                Lower(matches[k].g[2]))]

\* _extract_time_filters(intent)
_extract_time_filters(intent) == TimeFilters(FindAll(_TIME_RANGE_RE, intent))

\* one loop of _extract_natural_language_filters: every match of a pattern
\* becomes a filter on the first candidate field the dataset has
PatternFilters(matches, preferred, available_fields, label, operator, Value(_), Kept(_)) ==
  Bind(_field_if_available(preferred, available_fields), LAMBDA field :
    IF ~Truthy(field) THEN <<>>
    ELSE [k \in 1..Len(matches) |->
            Found(_format_filter(field.v, operator, Str(Value(matches[k]))),
                  matches[k],
                  [type |-> label, field |-> field.v, value |-> Kept(matches[k])])])

\* _extract_natural_language_filters(intent, field_map)
_extract_natural_language_filters(intent, field_map) ==
  LET available_fields == cortex_collect_fields(field_map)
      whole(m) == m.g0
      group(m) == m.g
      lowered(m) == Lower(m.g)
  IN PatternFilters(FindAll(_MD5_RE, intent),
                    <<"action_file_md5", "action_process_image_md5">>,
                    available_fields, "md5", "=", whole, whole)
     \o PatternFilters(FindAll(_SHA256_RE, intent),
                       <<"action_file_sha256", "action_process_image_sha256">>,
                       available_fields, "sha256", "=", whole, whole)
     \o PatternFilters(FindAll(_IPV4_RE, intent),
                       <<"action_local_ip", "action_remote_ip", "src_ip", "dst_ip">>,
                       available_fields, "ipv4", "=", whole, whole)
     \o PatternFilters(FindAll(_PROCESS_RE, intent),
                       <<"actor_process_image_name", "action_file_name">>,
                       available_fields, "process_name", "=", lowered, lowered)
     \o PatternFilters(FindAll(cortex_FILE_PATH_RE, intent),
                       <<"action_file_path", "actor_process_image_path">>,
                       available_fields, "file_path", "=", group, group)
     \o PatternFilters(FindAll(_HOST_PHRASE_RE, intent),
                       <<"agent_hostname", "dest_agent_hostname", "src_agent_hostname">>,
                       available_fields, "hostname", "contains", lowered, group)

\* chars[idx] = " " for every idx of every span
BlankSpans(intent, spans) ==
  MapPositions(LAMBDA i :
                 IF \E k \in 1..Len(spans) : spans[k][1] <= i /\ i < spans[k][2]
                 THEN " "
                 ELSE Char(intent, i),
               1, Len(intent))

\* re.sub(r"\s+", " ", s): the first blank of a run becomes a space, the
\* others go
CollapseWhitespace(s) ==
  MapPositions(LAMBDA i :
                 IF Char(s, i) \notin Whitespace THEN Char(s, i)
                 ELSE IF i > 1 /\ Char(s, i - 1) \in Whitespace THEN ""
                 ELSE " ",
               1, Len(s))

RECURSIVE SplitOn(_, _, _)
\* re.split over a class of single characters, from position i on
SplitOn(s, i, separators) ==
  Bind(RunEndNot(s, i, separators), LAMBDA r :
    IF r > Len(s) THEN <<SubSeq(s, i, Len(s))>>
    ELSE <<SubSeq(s, i, r - 1)>> \o SplitOn(s, r + 1, separators))

RECURSIVE RunsOf(_, _, _)
\* re.findall over a class repeated once or more, from position i on
RunsOf(s, i, cls) ==
  Bind(RunEndNot(s, i, cls), LAMBDA a :
    IF a > Len(s) THEN <<>>
    ELSE Bind(RunEnd(s, a, cls), LAMBDA b :
           <<SubSeq(s, a, b - 1)>> \o RunsOf(s, b, cls)))

\* the keywords _extract_keywords takes from one stripped token
TokenKeywords(token) ==
  IF token = "" \/ Lower(token) \in _HOST_KEYWORDS
  THEN <<>>
  ELSE RunsOf(token, 1, HostChars)

\* the loop of _extract_keywords over the split tokens
KeywordsOf(tokens) ==
  Flatten([k \in 1..Len(tokens) |-> TokenKeywords(Strip(tokens[k]))])

\* the keywords of the residual text
ResidualKeywords(residual) ==
  IF residual = "" THEN <<>> ELSE KeywordsOf(SplitOn(residual, 1, {";", ","}))

\* _extract_keywords(intent, spans)
_extract_keywords(intent, spans) ==
  IF intent = "" THEN <<>>
  ELSE ResidualKeywords(Strip(CollapseWhitespace(BlankSpans(intent, spans))))

\* what _resolve_process_aliases appends for one lower-cased keyword
ResolvedAlias(lowered) ==
  Bind(MinOrZero({i \in 1..Len(_KNOWN_PROCESS_ALIASES) :
                    _KNOWN_PROCESS_ALIASES[i][1] = lowered}), LAMBDA i :
    IF i > 0 THEN <<_KNOWN_PROCESS_ALIASES[i][2]>>
    ELSE IF EndsWith(lowered, ".exe") THEN <<lowered>>
    ELSE <<>>)

\* _resolve_process_aliases(keywords)
_resolve_process_aliases(keywords) ==
  Flatten([k \in 1..Len(keywords) |-> ResolvedAlias(Lower(keywords[k]))])

\* re.search(r"process|execution", intent, re.IGNORECASE)
MentionsProcess(intent) ==
  \E i \in 1..Len(intent) : LowerAt(intent, i, "process") \/ LowerAt(intent, i, "execution")

RECURSIVE AppendFields(_, _, _)
\* append_field over names: those of the field map not taken yet
AppendFields(results, names, field_map) ==
  IF Len(names) = 0 THEN results
  ELSE AppendFields(
         IF InFieldMap(Head(names), field_map) /\ ~InList(Head(names), results)
         THEN Append(results, Head(names))
         ELSE results,
         Tail(names), field_map)

preferred_groups ==
  <<"system_fields", "event_fields", "actor_fields", "action_fields",
    "agent_fields", "auth_fields", "dst_fields">>

\* meta.get("key_fields") or meta.get("fields", [])
RawFields(meta) == IF Len(meta.key_fields) > 0 THEN meta.key_fields ELSE meta.fields

\* one round of the loop over preferred_groups: the fields of the group, if
\* field_groups has it (at index i), appended to results
WithGroup(results, field_groups, i, field_map) ==
  IF i = 0 THEN results
  ELSE AppendFields(results, RawFields(field_groups[i]), field_map)

RECURSIVE GroupFields(_, _, _, _)
\* the loop over preferred_groups: key_fields, or fields when there are none
GroupFields(results, groups, field_groups, field_map) ==
  IF Len(groups) = 0 THEN results
  ELSE GroupFields(
         WithGroup(results, field_groups,
                   MinOrZero({i \in 1..Len(field_groups) :
                                field_groups[i].group = Head(groups)}),
                   field_map),
         Tail(groups), field_groups, field_map)

\* the names of the given entries
NamesOf(entries) == [i \in 1..Len(entries) |-> entries[i].name]

\* the names of the entries flagged default_field, in the map's order
FlaggedFields(field_map) ==
  NamesOf(SelectSeq(field_map, LAMBDA entry : entry.default_field))

\* the first of the three lists that is not empty (the last if all are)
FirstNonEmpty(a, b, c) ==
  IF Len(a) > 0 THEN a ELSE IF Len(b) > 0 THEN b ELSE c

\* results[:6]
FirstSix(results) == SubSeq(results, 1, IF Len(results) < 6 THEN Len(results) ELSE 6)

\* _derive_default_fields, mistaken: the list is returned whole, without
\* the cut to six
DeriveWithoutCap(field_groups, field_map) ==
  IF Len(field_groups) = 0 \/ Len(field_map) = 0 THEN <<>>
  ELSE FirstNonEmpty(
         GroupFields(<<>>, preferred_groups, field_groups, field_map),
         AppendFields(<<>>, FlaggedFields(field_map), field_map),
         AppendFields(<<>>,
                      <<"_time", "agent_hostname", "actor_process_image_name",
                        "action_process_image_name">>, field_map))

\* _derive_default_fields(field_groups, field_map)
_derive_default_fields(field_groups, field_map) ==
  IF Len(field_groups) = 0 \/ Len(field_map) = 0 THEN <<>>
  ELSE FirstSix(FirstNonEmpty(
         GroupFields(<<>>, preferred_groups, field_groups, field_map),
         AppendFields(<<>>, FlaggedFields(field_map), field_map),
         AppendFields(<<>>,
                      <<"_time", "agent_hostname", "actor_process_image_name",
                        "action_process_image_name">>, field_map)))

(***************************************************************************)
(* cortex/schema_loader.py is not part of the sources at hand: the table   *)
(* of field maps and the dataset resolver follow the documented resolver   *)
(* contract (requested name cleaned, then membership, then prefix; an      *)
(* absent name takes the configured default, else the first key; an        *)
(* unknown name fails with the valid keys listed).                         *)
(***************************************************************************)
\* CortexSchemaCache.DATASET_FIELD_MAP: dataset -> key of its field map in
\* the payload, in order
DATASET_FIELD_MAP ==
  << <<"xdr_data", "xdr_data_fields">>, <<"cloud_audit_logs", "cloud_audit_log_fields">> >>

\* what the resolver returns: the chosen dataset and the log
Resolved(dataset, log) == [ok |-> TRUE, dataset |-> dataset, log |-> log]

\* the resolver's answer to an absent name
DefaultDataset(available) ==
  IF InList(cortex_DEFAULT_DATASET, available)
  THEN Resolved(cortex_DEFAULT_DATASET, <<"defaulted_to:" \o cortex_DEFAULT_DATASET>>)
  ELSE IF Len(available) > 0
  THEN Resolved(available[1], <<"defaulted_to:" \o available[1]>>)
  ELSE Raise("ValueError", "No datasets available in schema")

\* the resolver's answer by prefix: i is the index of the first name that
\* starts with the cleaned request, 0 if there is none
PrefixDataset(name, available, i) ==
  IF i > 0
  THEN Resolved(available[i], <<"prefix_matched:" \o available[i]>>)
  ELSE Raise("ValueError",
             "Unknown dataset '" \o name \o "'. Valid options: " \o Join(available, ", "))

\* the resolver's answer to a request, cleaned its normalised spelling
CleanedDataset(name, available, cleaned) ==
  IF InList(cleaned, available)
  THEN Resolved(cleaned,
                IF cleaned # name
                THEN <<"normalised_from:" \o name \o "->" \o cleaned>>
                ELSE <<>>)
  ELSE PrefixDataset(name, available,
                     MinOrZero({i \in 1..Len(available) :
                                  StartsWith(available[i], cleaned)}))

\* normalise_dataset(name, available): the chosen dataset and the log
normalise_dataset(name, available) ==
  IF ~Truthy(name) THEN DefaultDataset(available)
  ELSE CleanedDataset(name.v, available, Replace(Lower(Strip(name.v)), " ", "_"))

(***************************************************************************)
(* cortex/query_builder.py: build_cortex_query.  A schema payload is       *)
(* [datasets, field_groups, tables]: the datasets in order, each           *)
(* [key, default_fields]; the field groups, each [group, key_fields,       *)
(* fields]; and the field maps by payload key.                             *)
(***************************************************************************)
\* available_names: the schema's datasets, then the mapped ones not among them
available_names(schema) ==
  LET listed == [i \in 1..Len(schema.datasets) |-> schema.datasets[i].key]
      F[i \in 0..Len(DATASET_FIELD_MAP)] ==
        IF i = 0 THEN listed
        ELSE IF InList(DATASET_FIELD_MAP[i][1], F[i - 1]) THEN F[i - 1]
        ELSE Append(F[i - 1], DATASET_FIELD_MAP[i][1])
  IN F[Len(DATASET_FIELD_MAP)]

\* payload.get(mapping.get(chosen_dataset), {})
FieldMapOf(schema, chosen_dataset) ==
  LET mapped == {i \in 1..Len(DATASET_FIELD_MAP) : DATASET_FIELD_MAP[i][1] = chosen_dataset}
      mapped_key == DATASET_FIELD_MAP[CHOOSE i \in mapped : TRUE][2]
  IN IF mapped # {} /\ mapped_key \in DOMAIN schema.tables
     THEN schema.tables[mapped_key]
     ELSE <<>>

\* available_datasets.get(chosen_dataset).get("default_fields"), cleaned:
\* [str(field).strip() for field in raw_default if field]
DatasetDefaultFields(schema, chosen_dataset) ==
  LET found == {i \in 1..Len(schema.datasets) : schema.datasets[i].key = chosen_dataset}
      raw_default == schema.datasets[CHOOSE i \in found : TRUE].default_fields
      kept == SelectSeq(raw_default, LAMBDA f : f # "")
  IN IF found = {} THEN <<>> ELSE [i \in 1..Len(kept) |-> Strip(kept[i])]

\* structured_filters: a dict is one filter, anything else falsy none
StructuredFilters(filters) ==
  IF ~Truthy(filters) THEN <<>>
  ELSE IF filters.t = "dict" THEN <<filters>>
  ELSE filters.v

\* item.get(key), for the items that are dicts
ItemField(item) ==
  IF item.t = "dict" /\ item.field # Absent THEN item.field ELSE None

ItemOperator(item) ==
  IF item.t = "dict" /\ item.operator # Absent THEN item.operator ELSE Str("=")

ItemValue(item) ==
  IF item.t = "dict" /\ item.value # Absent THEN item.value ELSE None

\* operator.strip() of something that is no str
NoStrip(operator) ==
  Raise("AttributeError",
        "'" \o (CASE operator.t = "none" -> "NoneType"
                  [] operator.t = "int" -> "int"
                  [] operator.t = "bool" -> "bool"
                  [] operator.t = "list" -> "list"
                  [] OTHER -> "dict")
            \o "' object has no attribute 'strip'")

\* a filter stage and its metadata entry
Stage(expression, meta) == [expression |-> expression, meta |-> meta]

\* the stage of one structured filter, or the failure of an operator that is
\* no str
StructuredStage(field, operator, value) ==
  IF operator.t # "str" THEN NoStrip(operator)
  ELSE Return(<<Stage(_format_filter(PyStr(field), operator.v, value),
                      [type |-> "structured", field |-> field,
                       operator |-> operator, value |-> value])>>)

\* the stages of the results, or the first failure among them
Collected(results, failed) ==
  IF failed > 0 THEN results[failed]
  ELSE Return(Flatten([k \in 1..Len(results) |-> results[k].v]))

\* the loop over structured_filters: the stages of the items that name a
\* field, or the failure of the first operator that is no str
StructuredStages(items) ==
  Bind([k \in 1..Len(items) |->
          IF ~Truthy(ItemField(items[k])) THEN Return(<<>>)
          ELSE StructuredStage(ItemField(items[k]), ItemOperator(items[k]),
                               ItemValue(items[k]))], LAMBDA results :
    Collected(results, FirstFailure(results, 1)))

\* the stage of the process keywords, if there are any and the dataset has
\* a field for them
ProcessKeywordStage(process_names, process_field) ==
  IF Len(process_names) > 0 /\ Truthy(process_field)
  THEN Bind(SortedStrings({process_names[i] : i \in 1..Len(process_names)}),
            LAMBDA distinct :
         <<Stage(_format_filter(process_field.v, "in",
                                List([i \in 1..Len(distinct) |-> Str(distinct[i])])),
                 [type |-> "process_keyword", field |-> process_field.v,
                  value |-> process_names])>>)
  ELSE <<>>

\* the stage of the event type, if the text mentions processes and the
\* dataset has the field
EventTypeStage(natural_language_intent, event_field) ==
  IF MentionsProcess(natural_language_intent) /\ Truthy(event_field)
  THEN <<Stage(_format_filter(event_field.v, "=", Str("ENUM.PROCESS")),
               [type |-> "event_type", field |-> event_field.v,
                value |-> "ENUM.PROCESS"])>>
  ELSE <<>>

\* the stages of the found filters
StagesOf(found) == [k \in 1..Len(found) |-> Stage(found[k].expression, found[k].meta)]

\* the stages read from natural_language_intent: the pattern filters, the
\* process keywords, the event type, the time filters
IntentStages(natural_language_intent, field_map) ==
  Bind(_extract_natural_language_filters(natural_language_intent, field_map),
       LAMBDA found :
    StagesOf(found)
      \o ProcessKeywordStage(
           _resolve_process_aliases(
             _extract_keywords(natural_language_intent,
                               [k \in 1..Len(found) |-> found[k].span])),
           _field_if_available(<<"actor_process_image_name", "action_file_name">>,
                               cortex_collect_fields(field_map)))
      \o EventTypeStage(natural_language_intent,
                        _field_if_available(<<"event_type">>,
                                            cortex_collect_fields(field_map)))
      \o StagesOf(_extract_time_filters(natural_language_intent)))

\* the stage of a time_range dict, the defaults filled in
TimeRangeStage(field, operator, value) ==
  IF operator.t # "str" THEN NoStrip(operator)
  ELSE Return(<<Stage(_format_filter(PyStr(field), operator.v, value),
                      [type |-> "time_range", field |-> field,
                       operator |-> operator, value |-> value])>>)

\* the stage of the time_range argument: a str is taken as the expression,
\* a dict gives field, operator and value with their defaults
TimeRangeStages(time_range) ==
  IF ~Truthy(time_range) THEN Return(<<>>)
  ELSE IF time_range.t = "str"
  THEN Return(<<Stage(time_range.v, [type |-> "time_range", value |-> time_range.v])>>)
  ELSE IF time_range.t # "dict" THEN Return(<<>>)
  ELSE TimeRangeStage(
         IF time_range.field = Absent THEN Str("_time") ELSE time_range.field,
         IF time_range.operator = Absent THEN Str(">") ELSE time_range.operator,
         IF time_range.value = Absent
         THEN Str("current_time() - interval '1 hour'")
         ELSE time_range.value)

\* [str(field).strip() for field in fields if field]
GivenFields(given) == [i \in 1..Len(given) |-> Strip(given[i].v)]

\* default_fields: the dataset's own (listed), or else the ones derived
\* from the field groups
DefaultFields(listed, schema, field_map) ==
  IF Len(listed) = 0 /\ Len(schema.field_groups) > 0
  THEN _derive_default_fields(schema.field_groups, field_map)
  ELSE listed

\* selected_fields: the caller's fields stripped, or else the dataset's
\* default fields, or else the ones derived from the field groups
SelectedFields(fields, schema, chosen_dataset, field_map) ==
  IF Truthy(fields)
  THEN GivenFields(SelectSeq(fields.v, LAMBDA f : Truthy(f)))
  ELSE SelectSeq(DefaultFields(DatasetDefaultFields(schema, chosen_dataset),
                               schema, field_map),
                 LAMBDA f : f # "")

\* effective_limit, line 423, mistaken: zero is let through
EffectiveLimitFromZero(limit) ==
  IF limit = None THEN DEFAULT_LIMIT
  ELSE IF limit.v < 0 THEN 0
  ELSE IF limit.v > MAX_LIMIT THEN MAX_LIMIT
  ELSE limit.v

\* effective_limit = DEFAULT_LIMIT if limit is None
\*                   else min(max(int(limit), 1), MAX_LIMIT)
effective_limit(limit) ==
  IF limit = None THEN DEFAULT_LIMIT
  ELSE Min2(IF limit.v > 1 THEN limit.v ELSE 1, MAX_LIMIT)

\* the stages of the pipeline, joined by build_cortex_query with newlines
PipelineStages(chosen_dataset, filter_stages, selected_fields, limit) ==
  <<"dataset = " \o chosen_dataset>>
    \o [k \in 1..Len(filter_stages) |-> "| filter " \o filter_stages[k].expression]
    \o (IF Len(selected_fields) > 0
        THEN <<"| fields " \o Join(selected_fields, ", ")>>
        ELSE <<>>)
    \o <<"| limit " \o ToString(limit)>>

\* what build_cortex_query returns
CortexResult(chosen_dataset, log, filter_stages, selected_fields, limit) ==
  [ok |-> TRUE,
   query |-> Join(PipelineStages(chosen_dataset, filter_stages, selected_fields, limit),
                  "\n"),
   metadata |->
     [dataset |-> chosen_dataset,
      normalisation |-> log,
      recognised |-> [k \in 1..Len(filter_stages) |-> filter_stages[k].meta],
      limit |-> limit,
      fields |-> IF Len(selected_fields) > 0 THEN selected_fields ELSE Absent]]

\* build_cortex_query once the dataset is chosen (resolved) and its field
\* map read: structured and timed are the stages of the filters and of the
\* time range, or their failures
CortexStages(schema, fields, natural_language_intent, limit, resolved, field_map, structured, timed) ==
  IF ~structured.ok THEN structured
  ELSE IF ~timed.ok THEN timed
  ELSE CortexResult(resolved.dataset, resolved.log,
                    structured.v
                      \o (IF Truthy(natural_language_intent)
                          THEN IntentStages(natural_language_intent.v, field_map)
                          ELSE <<>>)
                      \o timed.v,
                    SelectedFields(fields, schema, resolved.dataset, field_map),
                    effective_limit(limit))

\* build_cortex_query(schema, dataset, filters, fields,
\*                    natural_language_intent, time_range, limit),
\* schema a payload dict
build_cortex_query(schema, dataset, filters, fields, natural_language_intent, time_range, limit) ==
  Bind(normalise_dataset(dataset, available_names(schema)), LAMBDA resolved :
    IF ~resolved.ok THEN resolved
    ELSE CortexStages(schema, fields, natural_language_intent, limit, resolved,
                      FieldMapOf(schema, resolved.dataset),
                      StructuredStages(StructuredFilters(filters)),
                      TimeRangeStages(time_range)))

(***************************************************************************)
(* The calls of build_cortex_query that are checked.                       *)
(***************************************************************************)
Field(name, default_field) == [name |-> name, default_field |-> default_field]

XdrFields ==
  << Field("_time", FALSE), Field("agent_hostname", TRUE),
     Field("actor_process_image_name", FALSE), Field("action_file_path", FALSE),
     Field("action_remote_ip", FALSE), Field("action_file_md5", FALSE),
     Field("event_type", TRUE) >>

CloudFields == << Field("_time", FALSE), Field("src_ip", TRUE) >>

CortexSchemas ==
  [listed |->
     [datasets |-> << [key |-> "xdr_data",
                       default_fields |-> <<"_time", " agent_hostname ", "">>] >>,
      field_groups |-> <<>>,
      tables |-> [xdr_data_fields |-> XdrFields]],
   grouped |->
     [datasets |-> << [key |-> "endpoint_events", default_fields |-> <<>>],
                      [key |-> "xdr_data", default_fields |-> <<>>] >>,
      field_groups |-> << [group |-> "event_fields", key_fields |-> <<>>,
                           fields |-> <<"event_type", "unknown_field", "_time">>],
                          [group |-> "system_fields",
                           key_fields |-> <<"_time", "agent_hostname">>,
                           fields |-> <<"action_file_md5">>] >>,
      tables |-> [xdr_data_fields |-> XdrFields]],
   bare |->
     [datasets |-> <<>>,
      field_groups |-> <<>>,
      tables |-> [cloud_audit_log_fields |-> CloudFields]]]

CortexDatasetArgs == {None, Str("xdr_data"), Str(" XDR Data"), Str("cloud"), Str("nope")}

CortexFilterArgs ==
  { None,
    Dict(Str("agent_hostname"), Absent, Str("web-01")),
    List(<< Dict(Str("action_remote_ip"), Str(" IN "), List(<<Str("10.0.0.5"), IntV(7)>>)),
            Dict(Absent, Str("="), Str("dropped")),
            Dict(Str("event_type"), Str("!="), Str("ENUM.FILE")) >>),
    List(<< Dict(Str("actor_process_image_name"), None, Str("cmd.exe")) >>) }

CortexIntentArgs ==
  { None,
    Str("powershell and cmd.exe process on host named web-01, last 24 hours"),
    Str("d41d8cd98f00b204e9800998ecf8427e from 10.0.0.5 wrote C:\\Temp\\a b; past week"),
    Str("10.0.0.5 and 10.0.0.5 ran cmd.exe then cmd.exe") }

CortexTimeRangeArgs ==
  { None,
    Str("_time > to_timestamp(0)"),
    Dict(Absent, Absent, Str("current_time() - interval '1 day'")) }

CortexFieldArgs == { None, List(<<Str(" agent_hostname "), Str(""), Str("event_type")>>) }

\* how far around the two ends of the range the limits are drawn
LimitMargin == 1

CortexLimitArgs ==
  {None}
    \cup {IntV(n) : n \in (0 - LimitMargin)..(1 + LimitMargin)}
    \cup {IntV(n) : n \in (MAX_LIMIT - LimitMargin)..(MAX_LIMIT + LimitMargin)}
    \cup {IntV(0 - 5), IntV(DEFAULT_LIMIT), IntV(5 * MAX_LIMIT)}

InitCortex ==
  /\ pc = "call"
  /\ args \in [fn : {"build_cortex_query"},
               schema : DOMAIN CortexSchemas,
               dataset : CortexDatasetArgs,
               filters : CortexFilterArgs,
               fields : CortexFieldArgs,
               natural_language_intent : CortexIntentArgs,
               time_range : CortexTimeRangeArgs,
               limit : CortexLimitArgs]
  /\ ret = Idle
  /\ env = NoEnv

\* one call of build_cortex_query, start to finish
BuildCortexQuery ==
  /\ pc = "call"
  /\ args.fn = "build_cortex_query"
  /\ ret' = build_cortex_query(CortexSchemas[args.schema], args.dataset, args.filters,
                               args.fields, args.natural_language_intent,
                               args.time_range, args.limit)
  /\ pc' = "done"
  /\ UNCHANGED <<args, env>>

NextCortex == BuildCortexQuery

SpecCortex == InitCortex /\ [][NextCortex]_vars

(***************************************************************************)
(* Properties of build_cortex_query, stated on the finished call.          *)
(***************************************************************************)
CortexDone == pc = "done" /\ args.fn = "build_cortex_query"

\* clamp(n, lo, hi)
Clamp(n, lo, hi) == IF n < lo THEN lo ELSE IF n > hi THEN hi ELSE n

\* the finished call made again with another limit
CortexCallWithLimit(limit) ==
  build_cortex_query(CortexSchemas[args.schema], args.dataset, args.filters,
                     args.fields, args.natural_language_intent, args.time_range, limit)

\* C3: a call of build_cortex_query that returns has, both as the number of
\* its last stage "| limit N" and as metadata.limit, the limit clamped to
\* 1..10000 (so 1 for 0 and for -5, 10000 for anything above), or 100 when
\* the limit is null; and a call that fails fails exactly as it does with a
\* null limit, so never because of the limit.
C3_EffectiveLimitClamped ==
  CortexDone =>
    LET expected == IF args.limit = None THEN 100 ELSE Clamp(args.limit.v, 1, 10000)
    IN IF ret.ok
       THEN /\ ret.metadata.limit = expected
            /\ EndsWith(ret.query, "\n| limit " \o ToString(expected))
       ELSE ret = CortexCallWithLimit(None)

\* a call with limit -5 has returned, with "| limit 1" as its last stage
C3_Witness ==
  /\ CortexDone
  /\ args.limit = IntV(0 - 5)
  /\ ret.ok
  /\ ret.metadata.limit = 1
  /\ EndsWith(ret.query, "\n| limit 1")

\* how often the text sub occurs in s
CountOf(s, sub) == Cardinality({i \in 1..Len(s) : StartsWithAt(s, i, sub)})

\* the finished call took its filter stages from the free text alone
FreeTextOnly ==
  /\ CortexDone
  /\ ret.ok
  /\ args.filters = None
  /\ args.time_range = None
  /\ args.natural_language_intent # None

\* C11: a call of build_cortex_query whose filter stages come from the free
\* text alone emits one filter for a value however often the text repeats
\* it: no two entries of metadata.recognised are the same, and the query has
\* one filter stage per entry.
C11_RepeatedValueOnce ==
  FreeTextOnly =>
    /\ \A i, j \in 1..Len(ret.metadata.recognised) :
         i # j => ret.metadata.recognised[i] # ret.metadata.recognised[j]
    /\ CountOf(ret.query, "\n| filter ") = Len(ret.metadata.recognised)

\* the positions of a list of pairs whose expression no earlier pair has
FirstOccurrences(pairs) ==
  {i \in 1..Len(pairs) : \A j \in 1..(i - 1) : pairs[j].expression # pairs[i].expression}

\* what the finished call of build_s1_query collected from its free text,
\* before and after the deduplication
S1Candidates == IntentCandidates(args.natural_language_intent.v, S1FieldMap)

S1FromIntent == _expressions_from_intent(args.natural_language_intent.v, S1FieldMap)

\* C12: the pairs _expressions_from_intent returns hold no expression twice,
\* are the candidates at the positions of their first occurrence in the
\* order of those positions (expression and metadata alike), and come out of
\* another _deduplicate unchanged; a call of build_s1_query that returns ends
\* its expressions and its metadata with them.
C12_DeduplicatedFirstSeen ==
  (S1Done /\ Truthy(args.natural_language_intent)) =>
    LET cands == S1Candidates
        out == S1FromIntent
        first == FirstOccurrences(cands)
        n == Len(ret.expressions) - Len(out)
    IN /\ \A a, b \in 1..Len(out) : a # b => out[a].expression # out[b].expression
       /\ Len(out) = Cardinality(first)
       /\ \A i \in first : out[Cardinality({j \in first : j <= i})] = cands[i]
       /\ _deduplicate(out) = out
       /\ ret.ok =>
            /\ n >= 0
            /\ \A k \in 1..Len(out) :
                 /\ ret.expressions[n + k] = out[k].expression
                 /\ ret.metadata.inferred_conditions[n + k] = out[k].meta

\* a call has returned whose free text gave the same expression twice, and
\* the query holds it once
C12_Witness ==
  /\ S1Returned
  /\ Truthy(args.natural_language_intent)
  /\ NoFilters
  /\ Len(S1FromIntent) < Len(S1Candidates)
  /\ Len(ret.expressions) = EventCount(S1Resolved) + Len(S1FromIntent)

(***************************************************************************)
(* Two calls in a row with the same arguments.  The builders keep no state *)
(* between calls (the module-level tables and compiled patterns are only   *)
(* read) and bind or mutate none of their arguments, so the second call    *)
(* finds the arguments as the first one found them.                        *)
(***************************************************************************)
\* a builder called with the arguments a
CallOf(a) ==
  IF a.fn = "build_s1_query"
  THEN build_s1_query(S1Schemas[a.schema], a.dataset, a.filters,
                      a.natural_language_intent, a.boolean_operator)
  ELSE build_cortex_query(CortexSchemas[a.schema], a.dataset, a.filters, a.fields,
                          a.natural_language_intent, a.time_range, a.limit)

\* a call that leaves the event-type filter it adds in the caller's list of
\* filters
ArgsLeftWithEventFilter(a) ==
  IF a.fn = "build_s1_query" /\ a.filters.t = "list"
  THEN [a EXCEPT !.filters = List(<<Str("meta.event.name in ('PROCESSCREATION')")>>
                                    \o a.filters.v)]
  ELSE a

\* the caller's arguments as a call leaves them: the builders copy what
\* they change (expressions, stages and metadata are new lists and dicts)
ArgsAfterCall(a) == a

InitTwice ==
  /\ pc = "first"
  /\ \/ args \in [fn : {"build_s1_query"},
                  schema : S1SchemaNames,
                  dataset : S1DatasetArgs,
                  filters : S1FiltersOf(0) \cup S1FiltersOf(1),
                  natural_language_intent : S1IntentsOf(0) \cup S1IntentsOf(1),
                  boolean_operator : S1BooleanOperators]
     \/ args \in [fn : {"build_cortex_query"},
                  schema : DOMAIN CortexSchemas,
                  dataset : CortexDatasetArgs,
                  filters : CortexFilterArgs,
                  fields : CortexFieldArgs,
                  natural_language_intent : CortexIntentArgs,
                  time_range : CortexTimeRangeArgs,
                  limit : {None, IntV(0)}]
  /\ ret = Idle
  /\ env = NoEnv

\* the first call, start to finish
FirstCall ==
  /\ pc = "first"
  /\ ret' = [first |-> CallOf(args)]
  /\ args' = ArgsAfterCall(args)
  /\ pc' = "second"
  /\ UNCHANGED env

\* the second call, with the arguments as the first one left them
SecondCall ==
  /\ pc = "second"
  /\ ret' = [first |-> ret.first, second |-> CallOf(args)]
  /\ args' = ArgsAfterCall(args)
  /\ pc' = "done"
  /\ UNCHANGED env

NextTwice == FirstCall \/ SecondCall

SpecTwice == InitTwice /\ [][NextTwice]_vars

ResolverNames == {"A", "B", "C"}

\* the longest candidate list
MaxCandidates == 3

\* the lists of at most n of the names, and those that name nothing twice
NameLists(n) == UNION {[1..k -> ResolverNames] : k \in 0..n}

KeyOrders ==
  {q \in NameLists(Cardinality(ResolverNames)) :
     \A i, j \in 1..Len(q) : i # j => q[i] # q[j]}

\* the field map a dict of the keys in this order is: name -> metadata for
\* the boolean dialect, the keys in order for the pipeline dialect
FieldsDict(keys) == [f \in {keys[i] : i \in 1..Len(keys)} |-> [data_type |-> "string"]]

\* a resolver called with candidates and a field map of the keys
Resolve(fn, candidate_list, keys) ==
  IF fn = "_choose_field"
  THEN _choose_field(FieldsDict(keys), candidate_list)
  ELSE _field_if_available(candidate_list, keys)

InitResolve ==
  /\ pc = "call"
  /\ args \in [fn : {"_choose_field", "_field_if_available"},
               candidates : NameLists(MaxCandidates),
               keys : KeyOrders]
  /\ ret = Idle
  /\ env = NoEnv

\* one call of _choose_field
ChooseField ==
  /\ pc = "call"
  /\ args.fn = "_choose_field"
  /\ ret' = Resolve("_choose_field", args.candidates, args.keys)
  /\ pc' = "done"
  /\ UNCHANGED <<args, env>>

\* one call of _field_if_available
FieldIfAvailable ==
  /\ pc = "call"
  /\ args.fn = "_field_if_available"
  /\ ret' = Resolve("_field_if_available", args.candidates, args.keys)
  /\ pc' = "done"
  /\ UNCHANGED <<args, env>>

NextResolve == ChooseField \/ FieldIfAvailable

SpecResolve == InitResolve /\ [][NextResolve]_vars

\* the positions of the candidates that are keys of the field map
PresentAt == {i \in 1..Len(args.candidates) : InList(args.candidates[i], args.keys)}

\* C14: _choose_field and _field_if_available return the candidate of the
\* lowest position that is a key of the field map, None when no candidate
\* is; the same for the same keys in any other order; and B for candidates
\* [A, B, C] and a field map of B and C only.
C14_FirstCandidatePresent ==
  pc = "done" =>
    /\ ret = IF PresentAt = {} THEN None
             ELSE Str(args.candidates[CHOOSE i \in PresentAt : \A j \in PresentAt : i <= j])
    /\ \A other \in KeyOrders :
         {other[i] : i \in 1..Len(other)} = {args.keys[i] : i \in 1..Len(args.keys)}
           => Resolve(args.fn, args.candidates, other) = ret
    /\ (args.candidates = <<"A", "B", "C">> /\ args.keys \in {<<"B", "C">>, <<"C", "B">>})
         => ret = Str("B")

\* _field_if_available has returned B for candidates [A, B, C] and a field
\* map that lists C before B
C14_Witness ==
  /\ pc = "done"
  /\ args.fn = "_field_if_available"
  /\ args.candidates = <<"A", "B", "C">>
  /\ args.keys = <<"C", "B">>
  /\ ret = Str("B")

(***************************************************************************)
(* server.py: the build tools and the retrieval service they consult.      *)
(* env is [initialiser, rag_init_event, rag_init_failed]: the position of  *)
(* the background thread that runs _initialize_rag_background, the         *)
(* module's threading.Event and its failure flag.  A tool call is one      *)
(* step: args holds the tool's name and arguments, ret what the tool       *)
(* returned or the exception that left it.                                 *)
(***************************************************************************)
RagEnv(initialiser, rag_init_event, rag_init_failed) ==
  [initialiser |-> initialiser,
   rag_init_event |-> rag_init_event,
   rag_init_failed |-> rag_init_failed]

\* _ensure_rag_initialized(): the event set and no failure flagged.  A wait
\* that ends with the event set is the call made after the initialiser's
\* step; otherwise the wait times out.
_ensure_rag_initialized(e) ==
  IF e.rag_init_event THEN ~e.rag_init_failed ELSE FALSE

\* what rag_service.search(intent, k=5, source_filter=...) can do: return
\* documents, return none, or raise
SearchOutcomes ==
  { Return(<<"doc-1", "doc-2">>), Return(<<>>), Raise("RuntimeError", "index unavailable") }

ToolReturned(value) == [t |-> "returned", value |-> value]

ToolRaised(exc, msg) == [t |-> "raised", exc |-> exc, msg |-> msg]

\* {"error": str(exc)}
ErrorRecord(msg) == [error |-> msg]

\* metadata = {"rag_context": context}, the builder's entries lost
ContextInsteadOfMetadata(metadata, context) ==
  [k \in {"rag_context"} |-> context]

\* metadata = {**metadata, "rag_context": context}
AttachContext(metadata, context) ==
  [k \in DOMAIN metadata \cup {"rag_context"} |->
     IF k = "rag_context" THEN context ELSE metadata[k]]

\* the metadata a build tool returns: the builder's, with the context
\* attached if there is free text, the service is ready and the search
\* returns documents; a search that raises is logged and nothing more
WithRagContext(metadata, intent, ready, search) ==
  IF Truthy(intent) /\ ready /\ search.ok /\ Len(search.v) > 0
  THEN AttachContext(metadata, search.v)
  ELSE metadata

\* the exceptions each tool's except clause catches: QueryBuildError is a
\* ValueError; except Exception catches them all
CaughtBy ==
  [cbc_build_query |-> {"QueryBuildError"},
   cortex_build_query |-> {"QueryBuildError", "ValueError"},
   s1_build_query |-> {"QueryBuildError", "ValueError", "TypeError",
                       "AttributeError", "RuntimeError"},
   kql_build_query |-> {}]

\* a build tool from the builder's result on: built is what the builder
\* returned or raised
ToolResult(fn, built, intent, ready, search) ==
  IF ~built.ok
  THEN IF built.exc \in CaughtBy[fn]
       THEN ToolReturned(ErrorRecord(built.msg))
       ELSE ToolRaised(built.exc, built.msg)
  ELSE IF fn = "kql_build_query"
  THEN ToolReturned([kql |-> built.query,
                     meta |-> WithRagContext(built.metadata, intent, ready, search)])
  ELSE ToolReturned([query |-> built.query,
                     metadata |-> WithRagContext(built.metadata, intent, ready, search)])

\* what build_cbc_query and build_kql_query give: a query with its metadata,
\* or the builder's error
CbcBuilderOutcomes ==
  { [ok |-> TRUE, query |-> "process_name:cmd.exe",
     metadata |-> [search_type |-> "process_search", limit |-> None]],
    [ok |-> TRUE, query |-> "(process_name:cmd.exe OR netconn_port:4444)",
     metadata |-> [search_type |-> "process_search", limit |-> IntV(50)]],
    Raise("QueryBuildError", "No expressions could be derived from the request") }

KqlBuilderOutcomes ==
  { [ok |-> TRUE, query |-> "DeviceProcessEvents\n| limit 100",
     metadata |-> [table |-> "DeviceProcessEvents", limit |-> IntV(100)]],
    Raise("ValueError", "Unknown table 'Nope'") }

\* the builder's result for one call of a build tool
BuilderResult(a) ==
  CASE a.fn = "s1_build_query" ->
         build_s1_query(S1Schemas[a.schema], a.dataset,
                        IF a.filters.t = "dict" THEN List(<<a.filters>>) ELSE a.filters,
                        a.natural_language_intent, a.boolean_operator)
    [] a.fn = "cortex_build_query" ->
         build_cortex_query(CortexSchemas[a.schema],
                            IF Truthy(a.dataset) THEN a.dataset
                            ELSE Str(cortex_DEFAULT_DATASET),
                            a.filters, a.fields, a.natural_language_intent,
                            a.time_range, a.limit)
    [] OTHER -> a.built

ToolIntents == {None, Str(""), Str("find cmd.exe with port 4444")}

S1ToolCalls ==
  [fn : {"s1_build_query"},
   schema : {"edr"},
   dataset : {None, Str("bogus")},
   filters : S1FiltersOf(0) \cup S1FiltersOf(1)
               \cup {Dict(Str("dst.port.number"), Str("=="), Str("4444"))},
   natural_language_intent : S1IntentsOf(0) \cup S1IntentsOf(1),
   boolean_operator : {"AND", "XOR"}]

CortexToolCalls ==
  [fn : {"cortex_build_query"},
   schema : {"listed"},
   dataset : {None, Str(" XDR Data"), Str("nope")},
   filters : CortexFilterArgs,
   fields : {None},
   natural_language_intent : CortexIntentArgs,
   time_range : {None},
   limit : {None, IntV(0)}]

CbcToolCalls ==
  [fn : {"cbc_build_query"}, natural_language_intent : ToolIntents,
   built : CbcBuilderOutcomes]

KqlToolCalls ==
  [fn : {"kql_build_query"}, natural_language_intent : ToolIntents,
   built : KqlBuilderOutcomes]

\* the payload cbc_cache.load() gives: the search types in the order of the
\* dict, and the field tables by their key (a field's entry is its name)
CbcPayload ==
  [search_types |-> <<"process_search", "binary_search", "alert_search">>,
   tables |-> [process_core_fields |-> {"process_name", "process_pid"},
               process_netconn_fields |-> {"netconn_port"},
               binary_search_fields |-> {"md5"},
               alert_search_fields |-> {"alert_severity"},
               process_notes |-> {"comment"}]]

\* the table a search type other than process_search reads
CbcMappingKeys ==
  [binary_search |-> "binary_search_fields",
   alert_search |-> "alert_search_fields",
   threat_report_search |-> "threat_report_search_fields"]

\* CBCSchemaCache.field_map_for(search_type): the names of the fields
field_map_for(payload, search_type) ==
  IF search_type = "process_search"
  THEN UNION {payload.tables[key] :
                key \in {k \in DOMAIN payload.tables :
                           StartsWith(k, "process_") /\ EndsWith(k, "_fields")}}
  ELSE IF search_type \notin DOMAIN CbcMappingKeys THEN {}
  ELSE IF CbcMappingKeys[search_type] \notin DOMAIN payload.tables THEN {}
  ELSE payload.tables[CbcMappingKeys[search_type]]

\* CBCSchemaCache.list_fields(search_type): the fields sorted by name
list_fields(payload, search_type) == SortedStrings(field_map_for(payload, search_type))

\* cbc_get_fields from the resolved search type on: resolved is what
\* normalise_search_type returned or raised
GetFieldsResult(payload, resolved) ==
  IF ~resolved.ok THEN ToolRaised(resolved.exc, resolved.msg)
  ELSE ToolReturned([search_type |-> resolved.search_type,
                     fields |-> list_fields(payload, resolved.search_type),
                     normalisation |-> resolved.log])

CbcFieldCalls ==
  [fn : {"cbc_get_fields"},
   search_type : {None, Str("process"), Str(" Alerts"), Str("bin"), Str("bogus"),
                  Str("threat")}]

InitTools ==
  /\ pc = "call"
  /\ args \in S1ToolCalls \cup CortexToolCalls \cup CbcToolCalls \cup KqlToolCalls
                 \cup CbcFieldCalls
  /\ ret = Idle
  /\ env = RagEnv("running", FALSE, FALSE)

\* _initialize_rag_background: ensure_index returns and the event is set
RagIndexReady ==
  /\ env.initialiser = "running"
  /\ env' = RagEnv("done", TRUE, env.rag_init_failed)
  /\ UNCHANGED <<pc, args, ret>>

\* _initialize_rag_background: an exception before the event is set flags
\* the failure
RagInitFails ==
  /\ env.initialiser = "running"
  /\ env' = RagEnv("failed", env.rag_init_event, TRUE)
  /\ UNCHANGED <<pc, args, ret>>

\* _initialize_rag_background: the except clause sets the event
RagInitSignalsFailure ==
  /\ env.initialiser = "failed"
  /\ env' = RagEnv("done", TRUE, env.rag_init_failed)
  /\ UNCHANGED <<pc, args, ret>>

\* one call of a build tool, the search doing any of what it can do
BuildTool(fn) ==
  /\ pc = "call"
  /\ args.fn = fn
  /\ \E search \in SearchOutcomes :
       ret' = ToolResult(fn, BuilderResult(args), args.natural_language_intent,
                         _ensure_rag_initialized(env), search)
  /\ pc' = "done"
  /\ UNCHANGED <<args, env>>

\* one call of cbc_get_fields
cbc_get_fields ==
  /\ pc = "call"
  /\ args.fn = "cbc_get_fields"
  /\ ret' = GetFieldsResult(CbcPayload,
                            normalise_search_type(args.search_type,
                                                  CbcPayload.search_types))
  /\ pc' = "done"
  /\ UNCHANGED <<args, env>>

cbc_build_query == BuildTool("cbc_build_query")

cortex_build_query == BuildTool("cortex_build_query")

kql_build_query == BuildTool("kql_build_query")

s1_build_query == BuildTool("s1_build_query")

NextTools ==
  \/ RagIndexReady
  \/ RagInitFails
  \/ RagInitSignalsFailure
  \/ cbc_get_fields
  \/ cbc_build_query
  \/ cortex_build_query
  \/ kql_build_query
  \/ s1_build_query

SpecTools == InitTools /\ [][NextTools]_vars

BuildTools == {"cbc_build_query", "cortex_build_query", "kql_build_query", "s1_build_query"}

\* a build tool has returned a query
ToolBuilt ==
  /\ pc = "done"
  /\ args.fn \in BuildTools
  /\ ret.t = "returned"
  /\ "error" \notin DOMAIN ret.value

ReturnedQuery == IF args.fn = "kql_build_query" THEN ret.value.kql ELSE ret.value.query

ReturnedMetadata == IF args.fn = "kql_build_query" THEN ret.value.meta ELSE ret.value.metadata

\* C15: whatever the state of the retrieval service and whatever the search
\* does, a build tool returns the builder's query, every metadata entry of
\* the builder with its value, and no other entry but 'rag_context'.
C15_ContextIsAdditive ==
  ToolBuilt =>
    /\ ReturnedQuery = BuilderResult(args).query
    /\ \A k \in DOMAIN BuilderResult(args).metadata :
         /\ k \in DOMAIN ReturnedMetadata
         /\ ReturnedMetadata[k] = BuilderResult(args).metadata[k]
    /\ DOMAIN ReturnedMetadata \subseteq
         DOMAIN BuilderResult(args).metadata \cup {"rag_context"}

\* s1_build_query returned with the service ready and documents attached
C15_Witness ==
  /\ ToolBuilt
  /\ args.fn = "s1_build_query"
  /\ env.rag_init_event
  /\ ~env.rag_init_failed
  /\ "rag_context" \in DOMAIN ReturnedMetadata
  /\ ReturnedMetadata.rag_context = <<"doc-1", "doc-2">>

\* what the code under a tool call raised, if it raised: the resolver's
\* failure for cbc_get_fields, the builder's for a build tool
FailureOf(a) ==
  IF a.fn = "cbc_get_fields"
  THEN normalise_search_type(a.search_type, CbcPayload.search_types)
  ELSE BuilderResult(a)

\* the failures of the taxonomy are the ValueErrors of the resolvers and the
\* builders
TaxonomyFailure ==
  /\ pc = "done"
  /\ args.fn \in {"cbc_get_fields", "cortex_build_query", "s1_build_query"}
  /\ ~FailureOf(args).ok
  /\ FailureOf(args).exc = "ValueError"

\* C16: a failure of the taxonomy raised while cbc_get_fields,
\* cortex_build_query or s1_build_query serves a call is returned to the
\* caller as an error record with the failure's message; no exception leaves
\* the tool.
C16_FailuresAreReturned ==
  TaxonomyFailure =>
    /\ ret.t = "returned"
    /\ ret.value = ErrorRecord(FailureOf(args).msg)

(***************************************************************************)
(* build_s1_query with one structured filter whose value is a scalar       *)
(* string.  NumericTexts pairs each string with what int() makes of it:    *)
(* the integer, or None where int() raises ValueError.                     *)
(***************************************************************************)
NumericTexts ==
  << [text |-> "4444", int |-> IntV(4444)],
     [text |-> " 80 ", int |-> IntV(80)],
     [text |-> "+7", int |-> IntV(7)],
     [text |-> "-5", int |-> IntV(0 - 5)],
     [text |-> "007", int |-> IntV(7)],
     [text |-> "1_000", int |-> IntV(1000)],
     [text |-> "\t12\n", int |-> IntV(12)],
     [text |-> "http", int |-> None],
     [text |-> "", int |-> None],
     [text |-> "44.0", int |-> None],
     [text |-> "0x1F", int |-> None],
     [text |-> "4 4", int |-> None],
     [text |-> "_1", int |-> None],
     [text |-> "1__0", int |-> None],
     [text |-> "- 5", int |-> None],
     [text |-> "1e3", int |-> None] >>

NumericFilterFields == {"dst.port.number", "src.port.number", "src.process.user"}

NumericFilterOperators == {Absent, Str("!="), Str("<>"), Str(">=")}

InitNumeric ==
  /\ pc = "call"
  /\ args \in [fn : {"build_s1_query"},
               schema : {"edr"},
               dataset : {Str("processes"), Str("network_actions")},
               filters : {List(<<Dict(Str(f), op, Str(NumericTexts[i].text))>>) :
                            <<f, op, i>> \in NumericFilterFields
                                               \X NumericFilterOperators
                                               \X DOMAIN NumericTexts},
               natural_language_intent : {None},
               boolean_operator : {"AND"}]
  /\ ret = Idle
  /\ env = NoEnv

SpecNumeric == InitNumeric /\ [][NextS1]_vars

\* build_s1_query is done with one structured filter: a scalar string for a
\* field of the dataset whose declared type is numeric or integer
NumericStringCase ==
  /\ S1Done
  /\ args.filters.t = "list"
  /\ Len(args.filters.v) = 1
  /\ args.filters.v[1].t = "dict"
  /\ args.filters.v[1].value.t = "str"
  /\ ~FieldMissing(args.filters.v[1].field.v, S1FieldMap)
  /\ FieldDataType(S1FieldMap, args.filters.v[1].field.v) \in {"numeric", "integer"}

\* what int() makes of the filter's value, by NumericTexts
NumericTextInt ==
  NumericTexts[CHOOSE i \in DOMAIN NumericTexts :
                 NumericTexts[i].text = args.filters.v[1].value.v].int

\* the operator as the filter is rendered with it
NumericFilterOperator ==
  NormalizedOrVerbatim(IF args.filters.v[1].operator = Absent THEN "="
                       ELSE args.filters.v[1].operator.v, S1OperatorMap)

\* C17: a structured filter with a scalar string for a numeric or integer
\* field is rendered as field, operator and the unquoted integer the string
\* parses to; if the string parses to no integer the call fails with the
\* type-mismatch error.  It is never rendered with a quoted value.
C17_NumericStringCoerced ==
  NumericStringCase =>
    /\ NumericTextInt # None =>
         /\ ret.ok
         /\ ret.expressions[Len(ret.expressions)] =
              args.filters.v[1].field.v \o " " \o NumericFilterOperator
                \o " " \o ToString(NumericTextInt.v)
    /\ NumericTextInt = None =>
         /\ ~ret.ok
         /\ ret.exc = "ValueError"
         /\ ret.msg = "Field '" \o args.filters.v[1].field.v
                        \o "' expects a numeric value"
    /\ ret.ok => ~Contains(ret.expressions[Len(ret.expressions)], "'")

\* an integer field asked for " 80 " with '<>': the filter is rendered as
\* src.port.number <> 80
C17_Witness ==
  /\ NumericStringCase
  /\ args.filters.v[1].field.v = "src.port.number"
  /\ args.filters.v[1].value.v = " 80 "
  /\ args.filters.v[1].operator = Str("<>")
  /\ ret.ok
  /\ ret.expressions[Len(ret.expressions)] = "src.port.number <> 80"

(***************************************************************************)
(* kql/schema_loader.py: SchemaCache.  env is [source, disk, caches]: the  *)
(* signature of the source files (None when there are none), the cache     *)
(* file at schema_path, and the fields of each SchemaCache instance that   *)
(* shares that file.  A schema is named by the signature of the sources it *)
(* was read from.                                                          *)
(***************************************************************************)
CacheNames == {"A", "B"}

Signatures == {None, Str("s1"), Str("s2")}

\* how high the version counters are followed
MaxVersion == 3

NoFile == [t |-> "missing"]

\* a cache file that does not parse, or whose schema is no dict
Unreadable == [t |-> "unreadable"]

DiskPayload(schema, signature, version) ==
  [t |-> "payload", schema |-> schema, signature |-> signature, version |-> version]

\* a SchemaCache as the dataclass constructs it
NewCache == [_cache |-> None, _cache_version |-> 0, _loaded |-> FALSE,
             _source_signature |-> None]

\* _update_cache(schema, signature, version)
_update_cache(c, schema, signature, version) ==
  [_cache |-> schema,
   _cache_version |-> IF version = None THEN c._cache_version + 1 ELSE version.v,
   _loaded |-> TRUE,
   _source_signature |-> signature]

\* _load_from_disk(expected_signature): the payload, or None
_load_from_disk(disk, expected_signature) ==
  IF disk.t # "payload" THEN None
  ELSE IF expected_signature # None /\ disk.signature # expected_signature THEN None
  ELSE disk

\* _persist_to_disk(): the file after it.  The write goes through, fails
\* before the file is opened, or fails part of the way.
_persist_to_disk(c, disk, write) ==
  CASE write = "written" -> DiskPayload(c._cache, c._source_signature, c._cache_version)
    [] write = "refused" -> disk
    [] OTHER -> Unreadable

WriteOutcomes == {"written", "refused", "truncated"}

\* what a call leaves: the instance, the file, and what it returned or raised
Left(c, disk, result) == [cache |-> c, disk |-> disk, result |-> result]

\* the tail of load_or_refresh and refresh: the schema is read from the
\* sources (readable says whether that succeeds), the cache updated and
\* persisted
Rebuilt(c, disk, signature, readable, write, result) ==
  IF signature = None \/ ~readable
  THEN Left(c, disk, Raise("FileNotFoundError", "Schema index not found"))
  ELSE Left(_update_cache(c, signature, signature, None),
            _persist_to_disk(_update_cache(c, signature, signature, None), disk, write),
            Return(result))

\* the cache warmed from the payload of the file
Warmed(c, disk, payload) ==
  Left(_update_cache(c, payload.schema, payload.signature, IntV(payload.version)),
       disk, Return("warmed"))

\* load_or_refresh()
load_or_refresh(c, disk, signature, readable, write) ==
  IF c._loaded /\ signature = c._source_signature
  THEN Left(c, disk, Return("hit"))
  ELSE IF signature # None /\ _load_from_disk(disk, signature) # None
  THEN Warmed(c, disk, _load_from_disk(disk, signature))
  ELSE IF signature = None /\ ~c._loaded /\ _load_from_disk(disk, None) # None
  THEN Warmed(c, disk, _load_from_disk(disk, None))
  ELSE Rebuilt(c, disk, signature, readable, write, "populated")

\* refresh(force)
refresh(c, disk, signature, force, readable, write) ==
  IF ~force /\ c._loaded /\ signature = c._source_signature
  THEN Left(c, disk, Return("current"))
  ELSE IF signature = None
  THEN Left(c, disk, Raise("FileNotFoundError", "Schema directory not found or empty"))
  ELSE Rebuilt(c, disk, signature, readable, write, "refreshed")

\* the files an earlier run can have left at schema_path
EarlierFiles ==
  {NoFile, Unreadable}
    \cup {DiskPayload(s, s, v) : s \in Signatures \ {None}, v \in 0..1}

InitKql ==
  /\ pc = "serving"
  /\ args = Idle
  /\ ret = Idle
  /\ \E s \in Signatures : \E d \in EarlierFiles :
       env = [source |-> s, disk |-> d, caches |-> [n \in CacheNames |-> NewCache]]

\* env after a call on instance n
AfterCall(n, left) ==
  [source |-> env.source,
   disk |-> left.disk,
   caches |-> [env.caches EXCEPT ![n] = left.cache]]

\* one call of load_or_refresh on one instance
LoadOrRefresh ==
  \E n \in CacheNames : \E readable \in BOOLEAN : \E write \in WriteOutcomes :
    /\ env.caches[n]._cache_version < MaxVersion
    /\ args' = [fn |-> "load_or_refresh", cache |-> n]
    /\ ret' = load_or_refresh(env.caches[n], env.disk, env.source, readable, write).result
    /\ env' = AfterCall(n, load_or_refresh(env.caches[n], env.disk, env.source,
                                           readable, write))
    /\ UNCHANGED pc

\* one call of refresh on one instance
Refresh ==
  \E n \in CacheNames : \E force \in BOOLEAN :
    \E readable \in BOOLEAN : \E write \in WriteOutcomes :
      /\ env.caches[n]._cache_version < MaxVersion
      /\ args' = [fn |-> "refresh", cache |-> n, force |-> force]
      /\ ret' = refresh(env.caches[n], env.disk, env.source, force, readable, write).result
      /\ env' = AfterCall(n, refresh(env.caches[n], env.disk, env.source, force,
                                     readable, write))
      /\ UNCHANGED pc

\* the source files change: _compute_source_signature gives another value
SourceChanges ==
  /\ \E s \in Signatures \ {env.source} : env' = [env EXCEPT !.source = s]
  /\ UNCHANGED <<pc, args, ret>>

NextKql == LoadOrRefresh \/ Refresh \/ SourceChanges

SpecKql == InitKql /\ [][NextKql]_vars

\* C18: over any sequence of load_or_refresh and refresh calls, whatever the
\* cache file holds and whether or not persisting succeeds, the version of
\* a SchemaCache never decreases.
C18_VersionNeverDecreases ==
  [][\A n \in CacheNames :
       env'.caches[n]._cache_version >= env.caches[n]._cache_version]_vars

\* the stages of the returned query
QueryStages == SplitOn(ret.query, 1, {"\n"})

\* where a recognised entry comes from: 1 a structured filter, 2 the free
\* text (a relative time window included), 3 the event-type filter, 4 the
\* time_range argument
StageOrigin(meta) ==
  CASE meta.type = "structured" -> 1
    [] meta.type = "event_type" -> 3
    [] /\ meta.type = "time_range"
       /\ ("field" \in DOMAIN meta \/ ~StartsWith(meta.value, "last ")) -> 4
    [] OTHER -> 2

\* the structured filters of the call that name a field
NamedFilters == SelectSeq(StructuredFilters(args.filters), LAMBDA item : Truthy(ItemField(item)))

\* C19: a returned query is 'dataset = <key>', then one '| filter' stage per
\* recognised entry, then at most one '| fields' stage, then '| limit N',
\* and nothing else.  The filter stages are the structured filters in call
\* order, then the expressions derived from the free text (relative time
\* windows included), then the event-type filter, which is there only if the
\* free text mentions process or execution.
C19_LinearStages ==
  (CortexDone /\ ret.ok) =>
    /\ QueryStages[1] = "dataset = " \o ret.metadata.dataset
    /\ Len(QueryStages) - Len(ret.metadata.recognised) \in {2, 3}
    /\ \A k \in 1..Len(ret.metadata.recognised) : StartsWith(QueryStages[k + 1], "| filter ")
    /\ Len(QueryStages) - Len(ret.metadata.recognised) = 3 =>
         StartsWith(QueryStages[Len(QueryStages) - 1], "| fields ")
    /\ QueryStages[Len(QueryStages)] = "| limit " \o ToString(ret.metadata.limit)
    /\ \A k \in 1..Len(NamedFilters) :
         /\ ret.metadata.recognised[k].type = "structured"
         /\ ret.metadata.recognised[k].field = ItemField(NamedFilters[k])
    /\ \A i, j \in 1..Len(ret.metadata.recognised) :
         i < j => StageOrigin(ret.metadata.recognised[i])
                    <= StageOrigin(ret.metadata.recognised[j])
    /\ \A k \in 1..Len(ret.metadata.recognised) :
         ret.metadata.recognised[k].type = "event_type" =>
           /\ args.natural_language_intent # None
           /\ MentionsProcess(args.natural_language_intent.v)

\* the field a recognised entry names: the structured and time_range entries
\* hold the caller's value, the others the name
RecognisedField(meta) ==
  IF meta.type \in {"structured", "time_range"} THEN PyStr(meta.field) ELSE meta.field

\* the field map of the dataset the call resolved
ResolvedFieldMap == FieldMapOf(CortexSchemas[args.schema], ret.metadata.dataset)

\* C20: every entry of metadata.recognised that names a field names one of
\* the resolved dataset's field map: free text whose candidate fields are
\* all absent leaves no entry, and a call with a structured filter on an
\* unknown field returns no query.
C20_RecognisedFieldsExist ==
  (CortexDone /\ ret.ok) =>
    \A k \in 1..Len(ret.metadata.recognised) :
      "field" \in DOMAIN ret.metadata.recognised[k] =>
        InFieldMap(RecognisedField(ret.metadata.recognised[k]), ResolvedFieldMap)

(***************************************************************************)
(* cortex/query_builder.py: _format_value on its own.                      *)
(***************************************************************************)
\* how far from zero the numbers formatted go
MaxNumber == 25

FormatValueInputs ==
  {IntV(n) : n \in (0 - MaxNumber)..MaxNumber}
    \cup {Bool(TRUE), Bool(FALSE), None}
    \cup {Str(""), Str("  "), Str("web-01"), Str(" it's "), Str("ENUM.PROCESS"),
          Str("interval '1 day'"), Str("to_timestamp(0)"), Str("\"a'b\""),
          Str("'kept'"), Str("true"), Str("null"), Str("42")}
    \cup {List(<<Str("a"), IntV(1)>>)}

InitFormat ==
  /\ pc = "call"
  /\ args \in [fn : {"_format_value"}, value : FormatValueInputs]
  /\ ret = Idle
  /\ env = NoEnv

\* one call of _format_value
FormatValue ==
  /\ pc = "call"
  /\ args.fn = "_format_value"
  /\ ret' = cortex_format_value(args.value)
  /\ pc' = "done"
  /\ UNCHANGED <<args, env>>

NextFormat == FormatValue

SpecFormat == InitFormat /\ [][NextFormat]_vars

FormatDone == pc = "done" /\ args.fn = "_format_value"

\* C21: _format_value renders a number as its decimal text, true as 'true',
\* false as 'false' and None as 'null', none of them between quotes.
C21_KeywordsUnquoted ==
  FormatDone =>
    /\ args.value.t = "int" => ret = ToString(args.value.v)
    /\ args.value = Bool(TRUE) => ret = "true"
    /\ args.value = Bool(FALSE) => ret = "false"
    /\ args.value = None => ret = "null"
    /\ args.value.t \in {"int", "bool", "none"} => ~Contains(ret, "'")

(***************************************************************************)
(* s1/query_builder.py: _build_operator_map on its own, over schemas whose *)
(* operators and variants share lower-cased spellings.                     *)
(***************************************************************************)
\* how many documented operators a schema lists
MaxOperators == 2

OperatorPool ==
  { [name |-> "Equals", symbols |-> <<"==", "=">>],
    [name |-> "In", symbols |-> <<"IN", "in:anycase">>],
    [name |-> "Contains", symbols |-> <<"contains:anycase", "contains">>],
    [name |-> "In Anycase", symbols |-> <<"in">>],
    [name |-> "Exists", symbols |-> <<>>] }

VariantPool ==
  { <<>>, << <<"matches">> >>, << <<"EQUALS", "In">> >>, << <<"matches">>, <<"=">> >> }

OperatorLists == UNION {[1..n -> OperatorPool] : n \in 0..MaxOperators}

InitOperators ==
  /\ pc = "call"
  /\ args \in [fn : {"_build_operator_map"},
               operators : OperatorLists,
               operator_variants : VariantPool]
  /\ ret = Idle
  /\ env = NoEnv

\* one call of _build_operator_map
BuildOperatorMap ==
  /\ pc = "call"
  /\ args.fn = "_build_operator_map"
  /\ ret' = _build_operator_map(args)
  /\ pc' = "done"
  /\ UNCHANGED <<args, env>>

NextOperators == BuildOperatorMap

SpecOperators == InitOperators /\ [][NextOperators]_vars

OperatorsDone == pc = "done" /\ args.fn = "_build_operator_map"

\* the symbol an operator's name stands for
CanonicalSymbol(op) ==
  IF \E j \in 1..Len(op.symbols) : op.symbols[j] = "=" THEN "=" ELSE op.symbols[1]

\* everything the schema spells: each symbol and each variant for itself,
\* each name of an operator with symbols for its canonical symbol
Spellings ==
  {<<args.operators[i].symbols[j], args.operators[i].symbols[j]>> :
     <<i, j>> \in {p \in (1..Len(args.operators)) \X (1..2) :
                    p[2] <= Len(args.operators[p[1]].symbols)}}
    \cup {<<args.operators[i].name, CanonicalSymbol(args.operators[i])>> :
            i \in {k \in 1..Len(args.operators) : Len(args.operators[k].symbols) > 0}}
    \cup {<<args.operator_variants[i][j], args.operator_variants[i][j]>> :
            <<i, j>> \in {p \in (1..Len(args.operator_variants)) \X (1..2) :
                           p[2] <= Len(args.operator_variants[p[1]])}}

\* the spelling stands for one value: whatever else the schema spells the
\* same in lower case stands for the same
Unambiguous(spelling) ==
  \A p \in Spellings : Lower(p[1]) = Lower(spelling) => \A q \in Spellings :
    Lower(q[1]) = Lower(spelling) => q[2] = p[2]

\* the map's answer to the lower case of a spelling
LookedUp(spelling) == MapGet(ret, Lower(spelling))

\* C22 as stated: for every documented operator the lower case of each of
\* its symbols looks up that symbol, and the lower case of its name looks
\* up '=' if that is among its symbols and else its first symbol, whatever
\* the other operators and the variants are.
C22_EveryOperatorMapped ==
  OperatorsDone =>
    \A i \in 1..Len(args.operators) :
      /\ \A j \in 1..Len(args.operators[i].symbols) :
           LookedUp(args.operators[i].symbols[j]) = Str(args.operators[i].symbols[j])
      /\ Len(args.operators[i].symbols) > 0 =>
           LookedUp(args.operators[i].name) = Str(CanonicalSymbol(args.operators[i]))

\* C22, amended: the same for every symbol and every name whose lower case
\* is spelled by nothing in the schema that stands for another value; and
\* every key of the map is the lower case of something the schema spells,
\* with one of the values spelled so.
C22_UnambiguousOperatorMapped ==
  OperatorsDone =>
    /\ \A i \in 1..Len(args.operators) :
         /\ \A j \in 1..Len(args.operators[i].symbols) :
              Unambiguous(args.operators[i].symbols[j]) =>
                LookedUp(args.operators[i].symbols[j]) = Str(args.operators[i].symbols[j])
         /\ (Len(args.operators[i].symbols) > 0 /\ Unambiguous(args.operators[i].name)) =>
              LookedUp(args.operators[i].name) = Str(CanonicalSymbol(args.operators[i]))
    /\ \A k \in DOMAIN ret :
         \E p \in Spellings : Lower(p[1]) = k /\ p[2] = ret[k]

\* Equals (symbols '==' and '=') listed before Contains, whose name is also
\* one of its symbols: 'equals' looks up '=', '==' itself
C22_Witness ==
  /\ OperatorsDone
  /\ Len(args.operators) = 2
  /\ args.operators[1].name = "Equals"
  /\ args.operators[2].name = "Contains"
  /\ ~Unambiguous("contains")
  /\ LookedUp("Equals") = Str("=")
  /\ LookedUp("==") = Str("==")

(***************************************************************************)
(* s1/query_builder.py: infer_dataset on its own.                          *)
(***************************************************************************)
InferRequests ==
  {None, Str(""), Str("processes"), Str(" Processes "), Str("network actions"),
   Str("Network Actions"), Str("process creation"), Str("DNS"), Str("bogus"),
   Str(" process creation")}

InferIntents ==
  {None, Str(""), Str("show DNS traffic"), Str("file activity over http"),
   Str("find process connections"), Str("hello world"), Str("network logins")}

InitInfer ==
  /\ pc = "call"
  /\ args \in [fn : {"infer_dataset"},
               dataset : InferRequests,
               natural_language_intent : InferIntents,
               schema : S1SchemaNames]
  /\ ret = Idle
  /\ env = NoEnv

\* one call of infer_dataset
InferDataset ==
  /\ pc = "call"
  /\ args.fn = "infer_dataset"
  /\ ret' = infer_dataset(args.dataset, args.natural_language_intent,
                          S1Schemas[args.schema])
  /\ pc' = "done"
  /\ UNCHANGED <<args, env>>

NextInfer == InferDataset

SpecInfer == InitInfer /\ [][NextInfer]_vars

InferDone == pc = "done" /\ args.fn = "infer_dataset"

InferKeys == DatasetKeys(S1Schemas[args.schema])

\* the request as a key: trimmed, lower-cased, blanks to underscores
RequestedKey == Replace(Lower(Strip(args.dataset.v)), " ", "_")

\* the datasets (by position) whose display name is the request, case aside
NamedByRequest ==
  {i \in 1..Len(S1Schemas[args.schema].datasets) :
     /\ S1Schemas[args.schema].datasets[i].name # None
     /\ Lower(S1Schemas[args.schema].datasets[i].name.v) = Lower(args.dataset.v)}

\* the request names a dataset, by key or by display name
RequestMatches ==
  /\ Truthy(args.dataset)
  /\ (RequestedKey \in InferKeys \/ NamedByRequest # {})

\* the keywords (by position in the table) that occur in the free text and
\* map to a dataset of the schema
KeywordsHit ==
  IF ~Truthy(args.natural_language_intent) THEN {}
  ELSE {k \in 1..Len(_DATASET_KEYWORDS) :
          /\ Contains(Lower(args.natural_language_intent.v), _DATASET_KEYWORDS[k][1])
          /\ _DATASET_KEYWORDS[k][2] \in InferKeys}

\* C23: infer_dataset returns the requested dataset if the request matches a
\* key or a display name, whatever the free text says; else the dataset of
\* the first keyword of the table that occurs in the free text and maps to a
\* dataset of the schema; else 'processes' if the schema has it; else the
\* first key.  It returns a key of the schema, or None only when the schema
\* has no datasets.
C23_DatasetPrecedence ==
  InferDone =>
    /\ InferKeys = {} <=> ret = None
    /\ InferKeys # {} =>
         /\ ret.v \in InferKeys
         /\ (Truthy(args.dataset) /\ RequestedKey \in InferKeys) => ret = Str(RequestedKey)
         /\ (RequestMatches /\ RequestedKey \notin InferKeys) =>
              ret = Str(S1Schemas[args.schema].datasets[Min(NamedByRequest)].key)
         /\ (~RequestMatches /\ KeywordsHit # {}) =>
              ret = Str(_DATASET_KEYWORDS[Min(KeywordsHit)][2])
         /\ (~RequestMatches /\ KeywordsHit = {}) =>
              ret = IF "processes" \in InferKeys THEN Str("processes")
                    ELSE Str(S1Schemas[args.schema].datasets[1].key)

\* 'process creation' is asked for by display name while the free text
\* speaks of DNS traffic: processes is returned
C23_Witness ==
  /\ InferDone
  /\ args.dataset = Str("process creation")
  /\ args.natural_language_intent = Str("show DNS traffic")
  /\ KeywordsHit # {}
  /\ _DATASET_KEYWORDS[Min(KeywordsHit)][2] # "processes"
  /\ ret = Str("processes")

(***************************************************************************)
(* The projection of build_cortex_query over schemas whose dataset        *)
(* defaults, field groups and field map vary                               *)
(***************************************************************************)

\* the most groups a schema's field_groups holds
MaxGroups == 2

\* one entry of field_groups
Group(group, key_fields, fields) ==
  [group |-> group, key_fields |-> key_fields, fields |-> fields]

GroupPool ==
  { Group("system_fields", <<"_time", "agent_hostname">>, <<"action_file_md5">>),
    Group("event_fields", <<>>, <<"event_type", "unknown_field", "_time">>),
    Group("actor_fields",
          <<"actor_process_image_name", "_time", "action_file_path",
            "action_remote_ip", "action_file_md5", "event_type">>, <<>>),
    Group("other_fields", <<"action_remote_ip">>, <<>>),
    Group("dst_fields", <<"dst_unknown">>, <<"dst_other">>) }

\* field_groups: up to MaxGroups entries of the pool, no group twice
GroupLists ==
  { gs \in UNION { [1..n -> GroupPool] : n \in 0..MaxGroups } :
      \A i, j \in 1..Len(gs) : gs[i].group = gs[j].group => i = j }

ProjectionFieldMaps ==
  { XdrFields,
    << Field("src_ip", TRUE), Field("zone", FALSE) >>,
    << Field("action_process_image_name", FALSE), Field("zone", FALSE),
       Field("_time", FALSE) >>,
    <<>> }

\* the default_fields a dataset declares
ProjectionDefaults == { <<>>, <<"_time", " agent_hostname ", "">>, <<"  ">> }

ProjectionFieldArgs == CortexFieldArgs \cup { List(<<>>), List(<<Str("")>>) }

ProjectionSchema(default_fields, field_groups, field_map) ==
  [datasets |-> << [key |-> "xdr_data", default_fields |-> default_fields] >>,
   field_groups |-> field_groups,
   tables |-> [xdr_data_fields |-> field_map]]

InitProjection ==
  /\ pc = "call"
  /\ args \in [fn : {"build_cortex_query"},
               schema : { ProjectionSchema(d, g, m) :
                            d \in ProjectionDefaults, g \in GroupLists,
                            m \in ProjectionFieldMaps },
               dataset : {None},
               filters : {None},
               fields : ProjectionFieldArgs,
               natural_language_intent : {None},
               time_range : {None},
               limit : {None}]
  /\ ret = Idle
  /\ env = NoEnv

\* build_cortex_query(schema, fields=fields) on the schema handed over
BuildCortexQueryOn ==
  /\ pc = "call"
  /\ args.fn = "build_cortex_query"
  /\ ret' = build_cortex_query(args.schema, args.dataset, args.filters, args.fields,
                               args.natural_language_intent, args.time_range,
                               args.limit)
  /\ pc' = "done"
  /\ UNCHANGED <<args, env>>

NextProjection == BuildCortexQueryOn

SpecProjection == InitProjection /\ [][NextProjection]_vars

ProjectionDone == pc = "done" /\ args.fn = "build_cortex_query" /\ ret.ok

\* the fields the finished call projected (none: the query has no fields
\* stage)
Projected == IF Contains(ret.query, "\n| fields ") THEN ret.metadata.fields ELSE <<>>

\* the caller's fields that are not empty, stripped
CallerFields ==
  LET given == SelectSeq(args.fields.v, LAMBDA f : f.v # "")
  IN [i \in 1..Len(given) |-> Strip(given[i].v)]

\* the dataset's declared default fields that are not empty, stripped
DeclaredDefaults ==
  LET declared == SelectSeq(args.schema.datasets[1].default_fields, LAMBDA f : f # "")
  IN [i \in 1..Len(declared) |-> Strip(declared[i])]

ProjectedFieldMap == args.schema.tables.xdr_data_fields

\* the call had neither caller fields nor declared defaults to project
DerivedCase == ProjectionDone /\ ~Truthy(args.fields) /\ Len(DeclaredDefaults) = 0

\* the names the groups offer, group by group in the preferred order:
\* with fallback, a group without key fields offers its fields
GroupOffers(fallback) ==
  Flatten([g \in 1..Len(preferred_groups) |->
             LET hit == {i \in 1..Len(args.schema.field_groups) :
                           args.schema.field_groups[i].group = preferred_groups[g]}
                 meta == args.schema.field_groups[CHOOSE i \in hit : TRUE]
             IN IF hit = {} THEN <<>>
                ELSE IF fallback /\ Len(meta.key_fields) = 0 THEN meta.fields
                ELSE meta.key_fields])

\* the offered names of the field map, each at its first position, in the
\* order offered
FirstSeen(offers) ==
  LET kept == {i \in 1..Len(offers) :
                 /\ InFieldMap(offers[i], ProjectedFieldMap)
                 /\ \A j \in 1..(i - 1) : offers[j] # offers[i]}
  IN [k \in 1..Cardinality(kept) |->
        offers[CHOOSE i \in kept : Cardinality({j \in kept : j <= i}) = k]]

\* at most the first six
Capped(names) == [k \in 1..(IF Len(names) < 6 THEN Len(names) ELSE 6) |-> names[k]]

\* the names of the field map flagged default_field, in the map's order
FlaggedNames ==
  LET flagged == SelectSeq(ProjectedFieldMap, LAMBDA entry : entry.default_field)
  IN [i \in 1..Len(flagged) |-> flagged[i].name]

\* the derived list with the fallbacks of the code: the groups' offers, or
\* else the flagged fields, or else the four usual names
DerivedWithFallbacks ==
  IF Len(args.schema.field_groups) = 0 \/ Len(ProjectedFieldMap) = 0 THEN <<>>
  ELSE IF Len(FirstSeen(GroupOffers(TRUE))) > 0 THEN Capped(FirstSeen(GroupOffers(TRUE)))
  ELSE IF Len(FirstSeen(FlaggedNames)) > 0 THEN Capped(FirstSeen(FlaggedNames))
  ELSE Capped(FirstSeen(<<"_time", "agent_hostname", "actor_process_image_name",
                          "action_process_image_name">>))

\* the caller's fields come first, then the dataset's declared defaults
ProjectionPrecedence ==
  /\ (ProjectionDone /\ Truthy(args.fields)) => Projected = CallerFields
  /\ (ProjectionDone /\ ~Truthy(args.fields) /\ Len(DeclaredDefaults) > 0)
       => Projected = SelectSeq(DeclaredDefaults, LAMBDA f : f # "")

\* C24 as stated: build_cortex_query projects the caller's fields if given,
\* else the dataset's declared default fields, else the list derived from the
\* field groups, and the derived list is made of the key fields of the groups
\* in the preferred order: those of the field map, none twice, in first-seen
\* order, at most six
C24_DerivedFromKeyFields ==
  /\ ProjectionPrecedence
  /\ DerivedCase => Projected = Capped(FirstSeen(GroupOffers(FALSE)))

\* C24, amended: the same precedence, and the derived list takes from each
\* preferred group its key fields or, when it declares none, its fields; when
\* the groups give no name of the field map it falls back to the fields
\* flagged default_field and then to four fixed names; in every case it holds
\* only names of the field map, none twice, in first-seen order, at most six
C24_ProjectionPrecedence ==
  /\ ProjectionPrecedence
  /\ DerivedCase =>
       /\ Projected = DerivedWithFallbacks
       /\ Len(Projected) <= 6
       /\ \A i \in 1..Len(Projected) : InFieldMap(Projected[i], ProjectedFieldMap)
       /\ \A i, j \in 1..Len(Projected) : Projected[i] = Projected[j] => i = j

\* a derived projection of six names that starts with a field of a group
\* that declares no key fields
C24_Witness ==
  /\ DerivedCase
  /\ Len(Projected) = 6
  /\ Projected[1] = "event_type"

(***************************************************************************)
(* Two threads calling the builders on the same schema snapshots.  A call  *)
(* is taken in two steps, with the other thread free to run in between:   *)
(* first the dataset and the field map are read from the snapshot, then    *)
(* the filters are translated and the query is assembled.                  *)
(***************************************************************************)

Threads == {1, 2}

InterleavedS1Calls ==
  [fn : {"build_s1_query"},
   dataset : {None, Str("dns"), Str("network_actions")},
   filters : {None, List(<<Dict(Str("src.port.number"), Str("="), Str("80"))>>)},
   natural_language_intent : {None, Str("user is bob at 10.0.0.5 dns domain evil.com")},
   boolean_operator : {"AND", "XOR"}]

InterleavedCortexCalls ==
  [fn : {"build_cortex_query"},
   dataset : {None, Str("cloud")},
   filters : {None, Dict(Str("agent_hostname"), Absent, Str("web-01"))},
   fields : {None},
   natural_language_intent : {None, Str("10.0.0.5 and 10.0.0.5 ran cmd.exe then cmd.exe")},
   time_range : {None},
   limit : {None}]

\* the schema as _collect_fields leaves it, mistaken: the common fields are
\* not copied, and the dataset's fields are merged into the snapshot
SchemaCollectedInPlace(schema, dataset) ==
  [schema EXCEPT !.common_fields = s1_collect_fields(schema, dataset)]

\* the schema as _collect_fields leaves it: fields is a copy of the common
\* fields (dict(common), line 216), the snapshot is not written
SchemaAfterCollect(schema, dataset) == schema

\* the state the threads share: the two snapshots, each caller's filter
\* list, and each thread's locals
InitInterleaved ==
  /\ args \in [s1_schema : {"edr", "network"},
               cortex_schema : {"grouped"},
               calls : [Threads -> InterleavedS1Calls \cup InterleavedCortexCalls]]
  /\ pc = [t \in Threads |-> "call"]
  /\ ret = [t \in Threads |-> Idle]
  /\ env = [s1_schema |-> S1Schemas[args.s1_schema],
            cortex_schema |-> CortexSchemas[args.cortex_schema],
            filters |-> [t \in Threads |-> args.calls[t].filters],
            locals |-> [t \in Threads |-> Idle]]

\* build_s1_query up to line 633: the operator is checked, the dataset is
\* inferred and the field map collected from the snapshot
S1Collect(t) ==
  /\ pc[t] = "call"
  /\ args.calls[t].fn = "build_s1_query"
  /\ LET a == args.calls[t]
         operator == UpperCase(Strip(a.boolean_operator))
         dataset_key == infer_dataset(a.dataset, a.natural_language_intent, env.s1_schema)
     IN IF operator \notin {"AND", "OR"}
        THEN /\ ret' = [ret EXCEPT ![t] =
                          Raise("ValueError", "boolean_operator must be 'AND' or 'OR'")]
             /\ pc' = [pc EXCEPT ![t] = "done"]
             /\ UNCHANGED env
        ELSE /\ env' = [env EXCEPT
                          !.locals[t] = [operator |-> operator,
                                         dataset_key |-> dataset_key,
                                         fields |-> s1_collect_fields(env.s1_schema,
                                                                      dataset_key)],
                          !.s1_schema = SchemaAfterCollect(env.s1_schema, dataset_key)]
             /\ pc' = [pc EXCEPT ![t] = "collected"]
             /\ UNCHANGED ret
  /\ UNCHANGED args

\* build_s1_query from line 636 on: the operator map is built from the
\* snapshot, the caller's filters and the intent are translated with the
\* collected field map, and the query is assembled
S1Assemble(t) ==
  /\ pc[t] = "collected"
  /\ args.calls[t].fn = "build_s1_query"
  /\ LET a == args.calls[t]
         l == env.locals[t]
     IN ret' = [ret EXCEPT ![t] =
                  S1Built(env.s1_schema, a.dataset, env.filters[t],
                          a.natural_language_intent, l.operator, l.dataset_key, l.fields,
                          BuiltFilters(IF Truthy(env.filters[t]) THEN env.filters[t].v
                                       ELSE <<>>,
                                       l.fields, _build_operator_map(env.s1_schema)))]
  /\ pc' = [pc EXCEPT ![t] = "done"]
  /\ UNCHANGED <<args, env>>

\* build_cortex_query up to line 337: the dataset is normalised and its
\* field map taken from the snapshot
CortexResolve(t) ==
  /\ pc[t] = "call"
  /\ args.calls[t].fn = "build_cortex_query"
  /\ LET a == args.calls[t]
         resolved == normalise_dataset(a.dataset, available_names(env.cortex_schema))
     IN IF ~resolved.ok
        THEN /\ ret' = [ret EXCEPT ![t] = resolved]
             /\ pc' = [pc EXCEPT ![t] = "done"]
             /\ UNCHANGED env
        ELSE /\ env' = [env EXCEPT
                          !.locals[t] = [resolved |-> resolved,
                                         field_map |-> FieldMapOf(env.cortex_schema,
                                                                  resolved.dataset)]]
             /\ pc' = [pc EXCEPT ![t] = "collected"]
             /\ UNCHANGED ret
  /\ UNCHANGED args

\* build_cortex_query from line 339 on: the stages are built from the
\* caller's filters, the intent and the snapshot's defaults
CortexAssemble(t) ==
  /\ pc[t] = "collected"
  /\ args.calls[t].fn = "build_cortex_query"
  /\ LET a == args.calls[t]
         l == env.locals[t]
     IN ret' = [ret EXCEPT ![t] =
                  CortexStages(env.cortex_schema, a.fields, a.natural_language_intent,
                               a.limit, l.resolved, l.field_map,
                               StructuredStages(StructuredFilters(env.filters[t])),
                               TimeRangeStages(a.time_range))]
  /\ pc' = [pc EXCEPT ![t] = "done"]
  /\ UNCHANGED <<args, env>>

NextInterleaved ==
  \E t \in Threads : S1Collect(t) \/ S1Assemble(t) \/ CortexResolve(t) \/ CortexAssemble(t)

SpecInterleaved == InitInterleaved /\ [][NextInterleaved]_vars

\* what the call of thread t returns when it runs alone on the snapshots
\* the threads started with
AloneResult(t) ==
  LET a == args.calls[t]
  IN IF a.fn = "build_s1_query"
     THEN build_s1_query(S1Schemas[args.s1_schema], a.dataset, a.filters,
                         a.natural_language_intent, a.boolean_operator)
     ELSE build_cortex_query(CortexSchemas[args.cortex_schema], a.dataset, a.filters,
                             a.fields, a.natural_language_intent, a.time_range, a.limit)

Callers == {1, 2}

\* the most calls of _ensure_rag_initialized one caller makes
MaxCalls == 2

\* the except clause writes the flag, the error text, and only then sets
\* the event, mistaken: the event is set first
FailureWritesEventFirst == <<"event", "failed", "error">>

\* the except clause, mistaken: the event is not set
FailureWritesWithoutEvent == <<"failed", "error", "error">>

\* the writes of the except clause of the initialiser, in their order
FailureWrites == <<"failed", "error", "event">>

\* one write of the except clause
Written(e, write) ==
  IF write = "failed" THEN [e EXCEPT !.rag_init_failed = TRUE]
  ELSE IF write = "error" THEN [e EXCEPT !.rag_init_error = TRUE]
  ELSE [e EXCEPT !.rag_init_event = TRUE]

InitRag ==
  /\ pc = [c \in Callers |-> "idle"]
  /\ args = [c \in Callers |-> 0]
  /\ ret = [c \in Callers |-> Idle]
  /\ env = [initialiser |-> "start",
            handled |-> 0,
            rag_init_event |-> FALSE,
            rag_init_failed |-> FALSE,
            rag_init_error |-> FALSE,
            true_returned |-> FALSE,
            after_true |-> [c \in Callers |-> FALSE]]

\* the cache directory is there and writable, or RuntimeError is raised
CheckCacheDirectory ==
  /\ env.initialiser = "start"
  /\ \E writable \in BOOLEAN :
       env' = [env EXCEPT !.initialiser = IF writable THEN "indexing" ELSE "raised"]
  /\ UNCHANGED <<pc, args, ret>>

\* rag_service.ensure_index(timeout=120.0) returns or raises
EnsureIndex ==
  /\ env.initialiser = "indexing"
  /\ \E returns \in BOOLEAN :
       env' = [env EXCEPT !.initialiser = IF returns THEN "built" ELSE "raised"]
  /\ UNCHANGED <<pc, args, ret>>

\* _rag_init_event.set() on success
SignalReady ==
  /\ env.initialiser = "built"
  /\ env' = [env EXCEPT !.initialiser = "reporting", !.rag_init_event = TRUE]
  /\ UNCHANGED <<pc, args, ret>>

\* the log line on the retrieval method in use
ReportReady ==
  /\ env.initialiser = "reporting"
  /\ env' = [env EXCEPT !.initialiser = "done"]
  /\ UNCHANGED <<pc, args, ret>>

\* the next write of the except clause
HandleFailure ==
  /\ env.initialiser = "raised"
  /\ env.handled < Len(FailureWrites)
  /\ env' = [Written(env, FailureWrites[env.handled + 1]) EXCEPT
               !.handled = env.handled + 1,
               !.initialiser = IF env.handled + 1 = Len(FailureWrites)
                               THEN "failed" ELSE "raised"]
  /\ UNCHANGED <<pc, args, ret>>

\* a tool enters _ensure_rag_initialized and reads _rag_init_event.is_set()
BeginEnsure(c) ==
  /\ pc[c] = "idle"
  /\ args[c] < MaxCalls
  /\ args' = [args EXCEPT ![c] = args[c] + 1]
  /\ pc' = [pc EXCEPT ![c] = IF env.rag_init_event THEN "set" ELSE "waiting"]
  /\ env' = [env EXCEPT !.after_true[c] = env.true_returned]
  /\ UNCHANGED ret

\* _rag_init_event.wait(timeout) returns True: the event has been set
WaitReleased(c) ==
  /\ pc[c] = "waiting"
  /\ env.rag_init_event
  /\ pc' = [pc EXCEPT ![c] = "released"]
  /\ UNCHANGED <<args, ret, env>>

\* _rag_init_event.wait(timeout) returns False: the time is up, the call
\* returns False
WaitTimedOut(c) ==
  /\ pc[c] = "waiting"
  /\ ~env.rag_init_event
  /\ pc' = [pc EXCEPT ![c] = "idle"]
  /\ ret' = [ret EXCEPT ![c] = Bool(FALSE)]
  /\ UNCHANGED <<args, env>>

\* the event was seen set (line 163) or the wait was released (line 170):
\* _rag_init_failed is read and the call returns
ReadFailed(c) ==
  /\ pc[c] \in {"set", "released"}
  /\ pc' = [pc EXCEPT ![c] = "idle"]
  /\ ret' = [ret EXCEPT ![c] = Bool(~env.rag_init_failed)]
  /\ env' = [env EXCEPT !.true_returned = env.true_returned \/ ~env.rag_init_failed]
  /\ UNCHANGED args

Initialiser ==
  CheckCacheDirectory \/ EnsureIndex \/ SignalReady \/ ReportReady \/ HandleFailure

NextRag ==
  \/ Initialiser
  \/ \E c \in Callers : BeginEnsure(c) \/ WaitReleased(c) \/ WaitTimedOut(c) \/ ReadFailed(c)

SpecRag == InitRag /\ [][NextRag]_vars

\* the initialiser is a thread of its own and a waiting caller is woken
\* once the event is set: both get their turn; nothing is assumed of the
\* timeout
SpecRagFair ==
  /\ SpecRag
  /\ WF_vars(Initialiser)
  /\ \A c \in Callers : WF_vars(WaitReleased(c))

\* C26: whether index building returns or raises, the event is eventually
\* set, and a call waiting in _ensure_rag_initialized is eventually released
C26_EventEventuallySet ==
  /\ <>(env.rag_init_event)
  /\ \A c \in Callers : (pc[c] = "waiting") ~> (pc[c] # "waiting")

\* the initialisation has failed and a caller that waited for the event
\* has been released by it
C26_Witness ==
  /\ env.initialiser = "failed"
  /\ \E c \in Callers : pc[c] = "released"

MaxLoaders == 3

Loaders == 1..MaxLoaders

\* what the source file of the CBC schema holds, and its signature
CbcSourcePayload == Str("source schema")

CbcSourceSignature == Str("s1")

\* the cache file as earlier runs may have left it
CbcEarlierFiles ==
  { NoFile, Unreadable,
    DiskPayload(Str("disk schema"), CbcSourceSignature, 3),
    DiskPayload(Str("old schema"), Str("s0"), 1) }

\* CBCSchemaCache.__init__
NewCbcCache == [_cache |-> None, _cache_version |-> 0, _source_signature |-> None]

\* CBCSchemaCache._load_from_disk(expected_signature)
cbc_load_from_disk(disk, expected_signature) ==
  IF disk.t # "payload" THEN None
  ELSE IF disk.signature # expected_signature THEN None
  ELSE disk

\* CBCSchemaCache._persist_to_disk()
cbc_persist_to_disk(c, disk, write) ==
  CASE write = "written" -> DiskPayload(c._cache, c._source_signature, c._cache_version)
    [] write = "refused" -> disk
    [] OTHER -> Unreadable

\* with self._lock, mistaken: the lock is taken whoever holds it
LockAlwaysFree(lock) == TRUE

\* with self._lock: the lock can be taken when no thread holds it
LockFree(lock) == lock = 0

\* the cache when reading the source raised, mistaken: the stale payload is
\* dropped before the source is read
ClearedByFailedRead(c) == [c EXCEPT !._cache = None]

\* the cache when reading the source raised: lines 49 to 51 are not reached
LeftByFailedRead(c) == c

InitCbcLoad ==
  /\ pc = [t \in Loaders |-> "acquire"]
  /\ args \in [Loaders -> [fn : {"load"}, force_refresh : BOOLEAN]]
  /\ ret = [t \in Loaders |-> Idle]
  /\ \E d \in CbcEarlierFiles :
       env = [lock |-> 0,
              cache |-> NewCbcCache,
              disk |-> d,
              obtained |-> 0,
              version_changes |-> 0,
              before |-> [t \in Loaders |-> NewCbcCache],
              signature |-> [t \in Loaders |-> None]]

\* the behaviour is one of the CBC cache
CbcScenario == "lock" \in DOMAIN env

\* with self._lock: and the test of line 30
AcquireLock(t) ==
  /\ pc[t] = "acquire"
  /\ LockFree(env.lock)
  /\ env' = [env EXCEPT !.lock = t, !.before[t] = env.cache]
  /\ pc' = [pc EXCEPT ![t] = IF args[t].force_refresh \/ env.cache._cache = None
                             THEN "signing" ELSE "returning"]
  /\ UNCHANGED <<args, ret>>

\* signature = self._compute_signature(): None when stat() fails
ComputeSignature(t) ==
  /\ pc[t] = "signing"
  /\ \E stat_ok \in BOOLEAN :
       LET signature == IF stat_ok THEN CbcSourceSignature ELSE None
       IN /\ env' = [env EXCEPT !.signature[t] = signature]
          /\ pc' = [pc EXCEPT ![t] = IF ~args[t].force_refresh /\ signature # None
                                     THEN "disk" ELSE "source"]
  /\ UNCHANGED <<args, ret>>

\* lines 35 to 42: the cache is warmed from the cache file when its
\* signature matches
LoadFromDisk(t) ==
  /\ pc[t] = "disk"
  /\ LET cached == cbc_load_from_disk(env.disk, env.signature[t])
     IN IF cached # None
        THEN /\ env' = [env EXCEPT
                          !.cache = [_cache |-> cached.schema,
                                     _cache_version |-> cached.version,
                                     _source_signature |-> env.signature[t]],
                          !.obtained = env.obtained + 1,
                          !.version_changes =
                             IF cached.version # env.cache._cache_version
                             THEN env.version_changes + 1 ELSE env.version_changes]
             /\ pc' = [pc EXCEPT ![t] = "returning"]
             /\ UNCHANGED ret
        ELSE /\ pc' = [pc EXCEPT ![t] = "source"]
             /\ UNCHANGED <<ret, env>>
  /\ UNCHANGED args

\* lines 45 to 51: the schema is read from its source, which may raise, and
\* the cache, its version and its signature are assigned
LoadFromSource(t) ==
  /\ pc[t] = "source"
  /\ \E readable \in BOOLEAN :
       IF readable
       THEN /\ env' = [env EXCEPT
                         !.cache = [_cache |-> CbcSourcePayload,
                                    _cache_version |-> env.cache._cache_version + 1,
                                    _source_signature |-> env.signature[t]],
                         !.obtained = env.obtained + 1,
                         !.version_changes = env.version_changes + 1]
            /\ pc' = [pc EXCEPT ![t] = "persist"]
            /\ UNCHANGED ret
       ELSE /\ env' = [env EXCEPT !.cache = LeftByFailedRead(env.cache), !.lock = 0]
            /\ ret' = [ret EXCEPT ![t] = Raise("FileNotFoundError", "schema file")]
            /\ pc' = [pc EXCEPT ![t] = "done"]
  /\ UNCHANGED args

\* line 54: self._persist_to_disk()
PersistToDisk(t) ==
  /\ pc[t] = "persist"
  /\ \E write \in WriteOutcomes :
       env' = [env EXCEPT !.disk = cbc_persist_to_disk(env.cache, env.disk, write)]
  /\ pc' = [pc EXCEPT ![t] = "returning"]
  /\ UNCHANGED <<args, ret>>

\* return self._cache, and the lock is released
ReturnCache(t) ==
  /\ pc[t] = "returning"
  /\ ret' = [ret EXCEPT ![t] = Return(env.cache._cache)]
  /\ env' = [env EXCEPT !.lock = 0]
  /\ pc' = [pc EXCEPT ![t] = "done"]
  /\ UNCHANGED args

CbcLoad(t) ==
  \/ AcquireLock(t) \/ ComputeSignature(t) \/ LoadFromDisk(t)
  \/ LoadFromSource(t) \/ PersistToDisk(t) \/ ReturnCache(t)

InitCaches == InitCbcLoad \/ InitKql

NextCaches ==
  \/ CbcScenario /\ \E t \in Loaders : CbcLoad(t)
  \/ ~CbcScenario /\ NextKql

SpecCaches == InitCaches /\ [][NextCaches]_vars

\* every thread calls load() on the cold cache without force_refresh
ColdLoads == CbcScenario /\ \A t \in Loaders : ~args[t].force_refresh

\* C28: when threads call load() concurrently on a cold cache without
\* force_refresh, the schema is obtained at most once, and exactly once as
\* soon as a call has returned; the version changes at most once; every call
\* that returns, returns the cached payload; and a call that finds the cache
\* populated leaves the cache as it found it
C28_LoadOnce ==
  ColdLoads =>
    /\ env.obtained <= 1
    /\ env.version_changes <= 1
    /\ \A t \in Loaders :
         (pc[t] = "done" /\ ret[t].ok) =>
           /\ env.obtained = 1
           /\ ret[t].v = env.cache._cache
           /\ ret[t].v # None
    /\ \A t \in Loaders :
         (pc[t] \in {"returning", "done"} /\ env.before[t]._cache # None) =>
           env.cache = env.before[t]

\* every thread called load() on the cold cache, one of them found the cache
\* populated by another, and all returned the payload read from the source
C28_Witness ==
  /\ ColdLoads
  /\ \A t \in Loaders : pc[t] = "done" /\ ret[t] = Return(CbcSourcePayload)
  /\ env.cache._cache_version = 1
  /\ \E t \in Loaders : env.before[t]._cache = CbcSourcePayload

\* a step in which the call of thread t of the CBC cache ends with an error
CbcCallRaises(t) == pc[t] # "done" /\ pc'[t] = "done" /\ ~ret'[t].ok

\* a step in which a call of a KQL cache ends with an error
KqlCallRaises == ret' # ret /\ args' # Idle /\ ~ret'.ok

\* C30: a call of CBCSchemaCache.load that ends with an error leaves the
\* cache, its version and its signature as they were when the call took the
\* lock, and releases the lock; a call of SchemaCache.refresh or
\* load_or_refresh that ends with an error leaves every cache as it was
C30_FailedReadKeepsCache ==
  [][ /\ CbcScenario =>
           \A t \in Loaders :
             CbcCallRaises(t) => (env'.cache = env.before[t] /\ env'.lock = 0)
      /\ (~CbcScenario /\ KqlCallRaises) => env'.caches = env.caches ]_vars

\* a forced load() failed on the populated cache, and the other thread's
\* load() has since returned the payload the cache held before
C30_Witness ==
  /\ CbcScenario
  /\ \E t \in Loaders : \E u \in Loaders \ {t} :
       /\ pc[t] = "done" /\ ~ret[t].ok /\ args[t].force_refresh
       /\ env.before[t]._cache # None
       /\ env.before[u] = env.before[t]
       /\ pc[u] = "done" /\ ret[u] = Return(env.before[t]._cache)

\* C29 as stated: no query returned by build_s1_query holds ';', '|' or a
\* newline, whether its clauses come from raw filter strings, structured
\* filters or the free text
C29_NoSeparatorInQuery ==
  (S1Done /\ ret.ok) =>
    /\ ~Contains(ret.query, ";")
    /\ ~Contains(ret.query, "|")
    /\ ~Contains(ret.query, "\n")
====
